---- MODULE Spec2Model ----
(***************************************************************************)
(* Model of the DelPro exporter: the OID cursor and its checkpoint file,   *)
(* the periodic live-update cycle, the metric generation engine and the    *)
(* historical replay handler.                                              *)
(*                                                                         *)
(* Time is counted in minutes.  A metric set is a function from metric     *)
(* identities (name, label key, teat label) to integer values; a metric    *)
(* that was never created is not in its domain.  An optional (pointer)     *)
(* field is a sequence: <<>> is nil and <<v>> points at v.                 *)
(***************************************************************************)
EXTENDS Integers, Sequences, FiniteSets, TLC

\* ------------------------------------------------------------------ bounds
MaxRows == 2
MaxTicks == 2
MaxBatch == 3
MaxOID == 3
MaxSeq == 2
MaxApply == 2

\* ------------------------------------------------------- program constants
DefaultLookbackWindow == 1440
HistoricalLookbackHours == 43200
LiveDelay == 5
InitOffset == 10
UtilizationWindow == 1440

LeftFront == 1
RightFront == 2
LeftRear == 4
RightRear == 8

MetricMilkSessions == "delpro_milk_sessions_total"
MetricMilkYieldTotal == "delpro_milk_yield_liters_total"
MetricLastMilkYield == "delpro_milk_last_yield_liters"
MetricLastYieldTimestamp == "delpro_milk_last_yield_timestamp"
MetricConductivity == "delpro_milk_conductivity_mScm"
MetricSomaticCellTotal == "delpro_milk_somatic_cell_total"
MetricLastSomaticCellTotal == "delpro_milk_last_somatic_cell"
MetricLastSCCTimestamp == "delpro_milk_last_somatic_cell_timestamp"
MetricMilkingDuration == "delpro_milking_duration_seconds"
MetricLastMilkingDuration == "delpro_last_milking_duration_seconds"
MetricLastDurationTimestamp == "delpro_last_milking_duration_timestamp"
MetricIncomplete == "delpro_milking_incomplete_teat"
MetricKickoff == "delpro_milking_kickoff_teat"
MetricIncompleteTeats == "delpro_milking_incomplete_teats"
MetricKickoffTeats == "delpro_milking_kickoff_teats"
MetricDaysInLactation == "delpro_animal_days_in_lactation"
MetricDeviceUtilization == "delpro_device_utilization_sessions_per_hour"

\* ------------------------------------------------------------ basic values
Nil == <<>>

Some(v) == <<v>>

Deref(p) == p[1]

\* time.Time.Unix() and time.Time.UnixMilli() of a time counted in minutes
Unix(t) == t * 60

UnixMilli(t) == t * 60000

Max(a, b) == IF a > b THEN a ELSE b

RECURSIVE SetToSeq(_)
SetToSeq(S) ==
  IF S = {} THEN <<>>
  ELSE LET x == CHOOSE y \in S : TRUE IN <<x>> \o SetToSeq(S \ {x})

\* all orders in which a map over the keys S can be iterated
Orders(S) ==
  {p \in [1..Cardinality(S) -> S] : \A i, j \in 1..Cardinality(S) : p[i] = p[j] => i = j}

\* --------------------------------------------------------- the metric model
TeatString(t) ==
  CASE t = LeftFront -> "AvG"
    [] t = RightFront -> "AvD"
    [] t = LeftRear -> "ArG"
    [] t = RightRear -> "ArD"
    [] OTHER -> "unknown"

\* bitfield & teat # 0, for a non-negative bitfield and a power of two teat
BitSet(bitfield, teat) == (bitfield \div teat) % 2 = 1

AllTeats == <<LeftFront, RightFront, LeftRear, RightRear>>

\* the teats tested from the rear to the front
GetAffectedTeatsRearFirst(bitfield) ==
  LET rearFirst == <<RightRear, LeftRear, RightFront, LeftFront>>
      flagged == SelectSeq(rearFirst, LAMBDA t : BitSet(bitfield, t))
  IN [i \in 1..Len(flagged) |-> TeatString(flagged[i])]

GetAffectedTeats(bitfield) ==
  LET flagged == SelectSeq(AllTeats, LAMBDA t : BitSet(bitfield, t))
  IN [i \in 1..Len(flagged) |-> TeatString(flagged[i])]

RECURSIVE Join(_)
Join(strs) ==
  IF Len(strs) = 0 THEN ""
  ELSE IF Len(strs) = 1 THEN strs[1]
  ELSE strs[1] \o "," \o Join(Tail(strs))

GetAffectedTeatsString(bitfield) ==
  LET teats == GetAffectedTeats(bitfield)
  IN IF Len(teats) = 0 THEN "none" ELSE Join(teats)

\* the label key of a record: the animal's identity and the device
LabelStr(r) == <<r.AnimalRegNo, r.DeviceID>>

MetricName(r, metric) == [name |-> metric, key |-> LabelStr(r), teat |-> ""]

TeatMetricName(r, metric, teat) == [name |-> metric, key |-> LabelStr(r), teat |-> teat]

TeatsMetricName(r, metric, teats) == [name |-> metric, key |-> LabelStr(r), teat |-> teats]

\* the histogram's _sum and _count series
SumName(id) == [id EXCEPT !.name = @ \o "_sum"]

CountName(id) == [id EXCEPT !.name = @ \o "_count"]

\* ------------------------------------------------- the registry primitives
EmptySet == [id \in {} |-> 0]

Value(s, id) == IF id \in DOMAIN s THEN s[id] ELSE 0

GaugeSet(s, id, v) == [x \in DOMAIN s \cup {id} |-> IF x = id THEN v ELSE s[x]]

\* an Add that stores the value instead of adding it
GaugeAddOnce(s, id, v) == GaugeSet(s, id, v)

GaugeAdd(s, id, v) == GaugeSet(s, id, Value(s, id) + v)

CounterInc(s, id) == GaugeAdd(s, id, 1)

HistogramUpdate(s, id, v) == GaugeAdd(GaugeAdd(s, SumName(id), v), CountName(id), 1)

RECURSIVE IncTeats(_, _, _, _)
IncTeats(s, r, metric, teats) ==
  IF Len(teats) = 0 THEN s
  ELSE IncTeats(CounterInc(s, TeatMetricName(r, metric, Head(teats))), r, metric, Tail(teats))

\* ------------------------------------------------ the generation engine
\* One exposition line: the series, its value, the millisecond timestamp the
\* TimestampWriter appended, and the OID of the record whose step wrote it
\* (0 for a line written by writeInitializationValues).
Line(id, v, ts, oid) == [id |-> id, value |-> v, ts |-> ts, oid |-> oid]

\* session counter, last yield, last yield timestamp, yield total
ApplyYield(s, r) ==
  LET s1 == CounterInc(s, MetricName(r, MetricMilkSessions))
      s2 == GaugeSet(s1, MetricName(r, MetricLastMilkYield), r.Yield)
      s3 == GaugeSet(s2, MetricName(r, MetricLastYieldTimestamp), Unix(r.EndTime))
  IN GaugeAdd(s3, MetricName(r, MetricMilkYieldTotal), r.Yield)

ApplyConductivity(s, r) ==
  GaugeSet(s, MetricName(r, MetricConductivity), Deref(r.Conductivity))

ApplyDuration(s, r) ==
  LET s1 == HistogramUpdate(s, MetricName(r, MetricMilkingDuration), Deref(r.Duration))
      s2 == GaugeSet(s1, MetricName(r, MetricLastMilkingDuration), Deref(r.Duration))
  IN GaugeSet(s2, MetricName(r, MetricLastDurationTimestamp), Unix(r.EndTime))

ApplySomaticCellCount(s, r) ==
  IF r.SomaticCellCount # Nil
  THEN LET s1 == GaugeAdd(s, MetricName(r, MetricSomaticCellTotal), Deref(r.SomaticCellCount))
           s2 == GaugeSet(s1, MetricName(r, MetricLastSomaticCellTotal), Deref(r.SomaticCellCount))
       IN GaugeSet(s2, MetricName(r, MetricLastSCCTimestamp), Unix(r.EndTime))
  ELSE s

ApplyDaysInLactation(s, r) ==
  IF r.DaysInLactation # Nil
  THEN GaugeSet(s, MetricName(r, MetricDaysInLactation), Deref(r.DaysInLactation))
  ELSE s

\* the concatenated-teats gauge incremented whatever the label
ApplyTeatsAlways(s, r, bitfield, teatMetric, teatsMetric) ==
  CounterInc(IncTeats(s, r, teatMetric, GetAffectedTeats(bitfield)),
             TeatsMetricName(r, teatsMetric, GetAffectedTeatsString(bitfield)))

\* per-teat gauges and the concatenated-teats gauge of one bitfield
ApplyTeats(s, r, bitfield, teatMetric, teatsMetric) ==
  LET s1 == IncTeats(s, r, teatMetric, GetAffectedTeats(bitfield))
      teats == GetAffectedTeatsString(bitfield)
  IN IF teats # "none" THEN CounterInc(s1, TeatsMetricName(r, teatsMetric, teats)) ELSE s1

\* The body of the loop of CreateMetricsFromRecords for one record, up to the
\* write.  Conductivity, Duration, Incomplete and Kickoff are dereferenced
\* without a nil check: on nil the goroutine panics with the updates made so
\* far in place.
ProcessRecord(s, r) ==
  LET s1 == ApplyYield(s, r) IN
  IF r.Conductivity = Nil THEN [set |-> s1, panic |-> TRUE] ELSE
  LET s2 == ApplyConductivity(s1, r) IN
  IF r.Duration = Nil THEN [set |-> s2, panic |-> TRUE] ELSE
  LET s3 == ApplyDaysInLactation(ApplySomaticCellCount(ApplyDuration(s2, r), r), r) IN
  IF r.Incomplete = Nil THEN [set |-> s3, panic |-> TRUE] ELSE
  LET s4 == ApplyTeats(s3, r, Deref(r.Incomplete), MetricIncomplete, MetricIncompleteTeats) IN
  IF r.Kickoff = Nil THEN [set |-> s4, panic |-> TRUE] ELSE
  [set |-> ApplyTeats(s4, r, Deref(r.Kickoff), MetricKickoff, MetricKickoffTeats),
   panic |-> FALSE]

\* a writer stamping the lines with the time the session began
WritePrometheusAtBegin(s, r) ==
  LET ids == SetToSeq(DOMAIN s)
  IN [i \in 1..Len(ids) |-> Line(ids[i], s[ids[i]], UnixMilli(r.BeginTime), r.OID)]

\* s.WritePrometheus(NewTimestampWriter(w, r.EndTime)): every series of the
\* set, each line suffixed with the record's EndTime in milliseconds
WritePrometheus(s, r) ==
  LET ids == SetToSeq(DOMAIN s)
  IN [i \in 1..Len(ids) |-> Line(ids[i], s[ids[i]], UnixMilli(r.EndTime), r.OID)]

\* CreateMetricsFromRecords(s, w, records); hasWriter is w != nil.  The
\* result is the set, the lines written, whether a nil dereference stopped
\* the loop, and the OIDs of the records whose loop body completed.
RECURSIVE CreateLoop(_, _, _, _, _)
RECURSIVE CreateStep(_, _, _, _, _)

CreateLoop(s, hasWriter, records, out, done) ==
  IF Len(records) = 0 THEN [set |-> s, out |-> out, panic |-> FALSE, done |-> done]
  ELSE CreateStep(ProcessRecord(s, Head(records)), hasWriter, records, out, done)

\* the rest of one iteration, p being the outcome of the loop body on the
\* first of records
CreateStep(p, hasWriter, records, out, done) ==
  IF p.panic THEN [set |-> p.set, out |-> out, panic |-> TRUE, done |-> done]
  ELSE CreateLoop(p.set, hasWriter, Tail(records),
                  IF hasWriter THEN out \o WritePrometheus(p.set, Head(records)) ELSE out,
                  Append(done, Head(records).OID))

\* an engine that zeroes the set before it applies the records
CreateMetricsResetting(s, hasWriter, records) ==
  CreateLoop([id \in DOMAIN s |-> 0], hasWriter, records, <<>>, <<>>)

CreateMetricsFromRecords(s, hasWriter, records) ==
  CreateLoop(s, hasWriter, records, <<>>, <<>>)

\* --------------------------------------------------------- historical replay
SeqRange(q) == {q[i] : i \in 1..Len(q)}

\* the first record of one key in input order, whatever its EndTime
FirstRecordInOrder(records, key) ==
  records[CHOOSE i \in 1..Len(records) :
            /\ LabelStr(records[i]) = key
            /\ \A j \in 1..(i - 1) : LabelStr(records[j]) # key]

\* the first record with the earliest EndTime among the records of one key
FirstRecord(records, key) ==
  LET idx == {i \in 1..Len(records) : LabelStr(records[i]) = key}
      best == CHOOSE i \in idx :
                \A j \in idx : \/ records[i].EndTime < records[j].EndTime
                               \/ (records[i].EndTime = records[j].EndTime /\ i <= j)
  IN records[best]

LabelKeys(records) == {LabelStr(records[i]) : i \in 1..Len(records)}

writeZeroHistogram(metricName, timestampMs) ==
  << Line(SumName(metricName), 0, timestampMs, 0),
     Line(CountName(metricName), 0, timestampMs, 0) >>

InitLines(lastRecord) ==
  LET timestampMs == UnixMilli(lastRecord.EndTime - InitOffset)
  IN << Line(MetricName(lastRecord, MetricMilkSessions), 0, timestampMs, 0),
        Line(MetricName(lastRecord, MetricMilkYieldTotal), 0, timestampMs, 0),
        Line(MetricName(lastRecord, MetricSomaticCellTotal), 0, timestampMs, 0) >>
     \o writeZeroHistogram(MetricName(lastRecord, MetricMilkingDuration), timestampMs)

\* keyOrder is the order in which the map seenAnimals is iterated
RECURSIVE InitLoop(_, _)
InitLoop(keyOrder, records) ==
  IF Len(keyOrder) = 0 THEN <<>>
  ELSE InitLines(FirstRecord(records, Head(keyOrder))) \o InitLoop(Tail(keyOrder), records)

writeInitializationValues(records, keyOrder) ==
  IF Len(records) = 0 THEN <<>> ELSE InitLoop(keyOrder, records)

\* the records of one animal registration number, in input order
AnimalData(records, regNo) == SelectSeq(records, LAMBDA r : r.AnimalRegNo = regNo)

RegNos(records) == {records[i].AnimalRegNo : i \in 1..Len(records)}

\* the partitions replayed into the default set
HistoricalSetDefault == "default"

\* s := metrics.NewSet(): the set each partition is replayed into
HistoricalSet == "new"

\* animalOrder is the order in which the map animalRecords is iterated; g is
\* the default (shared) set, which a partition touches only if it is replayed
\* into it.  A panic ends the handler.
RECURSIVE ReplayLoop(_, _, _, _, _)
RECURSIVE ReplayStep(_, _, _, _, _)

ReplayLoop(g, records, animalOrder, out, done) ==
  IF Len(animalOrder) = 0 THEN [shared |-> g, out |-> out, panic |-> FALSE, done |-> done]
  ELSE ReplayStep(g, records, animalOrder,
                  CreateMetricsFromRecords(IF HistoricalSet = "new" THEN EmptySet ELSE g, TRUE,
                                           AnimalData(records, Head(animalOrder))),
                  [out |-> out, done |-> done])

\* the rest of one iteration, c being the outcome of CreateMetricsFromRecords
\* on the partition and acc the lines and records of the partitions before it
ReplayStep(g, records, animalOrder, c, acc) ==
  IF c.panic
  THEN [shared |-> IF HistoricalSet = "new" THEN g ELSE c.set,
        out |-> acc.out \o c.out, panic |-> TRUE, done |-> acc.done \o c.done]
  ELSE ReplayLoop(IF HistoricalSet = "new" THEN g ELSE c.set, records, Tail(animalOrder),
                  acc.out \o c.out, acc.done \o c.done)

WriteHistoricalMetrics(g, records, animalOrder) ==
  ReplayLoop(g, records, animalOrder, <<>>, <<>>)

WriteHistoricalMetricsWithInit(g, records, keyOrder, animalOrder) ==
  [WriteHistoricalMetrics(g, records, animalOrder)
     EXCEPT !.out = writeInitializationValues(records, keyOrder) \o @]

\* ----------------------------------------------------------- record source
\* A row of the result set of the query.  BeginTime is a nullable column; the
\* other optional columns come from the row itself (AvgConductivity) or from
\* the LEFT JOINs (Occ, Incomplete, Kickoff, DaysInLactation).
Row(oid, regNo, device, prof, begin, end) ==
  [OID |-> oid, AnimalRegNo |-> regNo, DeviceID |-> device, Yield |-> prof.Yield,
   Conductivity |-> prof.Conductivity, SomaticCellCount |-> prof.SomaticCellCount,
   DaysInLactation |-> prof.DaysInLactation, Incomplete |-> prof.Incomplete,
   Kickoff |-> prof.Kickoff, BeginTime |-> begin, EndTime |-> end]

\* rows.Scan: a NULL BeginTime cannot be scanned into a time.Time
Scannable(row) == row.BeginTime # Nil

\* the MilkingRecord scanned from a row; duration_seconds is
\* DATEDIFF(SECOND, BeginTime, EndTime)
Scan(row) ==
  [OID |-> row.OID, AnimalRegNo |-> row.AnimalRegNo, DeviceID |-> row.DeviceID,
   Yield |-> row.Yield, Conductivity |-> row.Conductivity,
   Duration |-> Some((row.EndTime - Deref(row.BeginTime)) * 60),
   SomaticCellCount |-> row.SomaticCellCount, DaysInLactation |-> row.DaysInLactation,
   Incomplete |-> row.Incomplete, Kickoff |-> row.Kickoff,
   BeginTime |-> Deref(row.BeginTime), EndTime |-> row.EndTime]

\* the WHERE clause with an inclusive lower OID bound
MatchesInclusive(row, start, end, startOID, endOID) ==
  /\ row.EndTime >= start
  /\ row.EndTime < end
  /\ row.OID >= startOID
  /\ (endOID > 0 => row.OID <= endOID)

\* the WHERE clause with an exclusive upper OID bound
MatchesBelowEnd(row, start, end, startOID, endOID) ==
  /\ row.EndTime >= start
  /\ row.EndTime < end
  /\ row.OID > startOID
  /\ (endOID > 0 => row.OID < endOID)

\* the WHERE clause
Matches(row, start, end, startOID, endOID) ==
  /\ row.EndTime >= start
  /\ row.EndTime < end
  /\ row.OID > startOID
  /\ (endOID > 0 => row.OID <= endOID)

\* ORDER BY smy.OID DESC
RECURSIVE OrderByOIDDescending(_)
OrderByOIDDescending(rows) ==
  IF rows = {} THEN <<>>
  ELSE LET first == CHOOSE r \in rows : \A q \in rows : r.OID >= q.OID
       IN <<first>> \o OrderByOIDDescending(rows \ {first})

\* ORDER BY smy.OID
RECURSIVE OrderByOID(_)
OrderByOID(rows) ==
  IF rows = {} THEN <<>>
  ELSE LET first == CHOOSE r \in rows : \A q \in rows : r.OID <= q.OID
       IN <<first>> \o OrderByOID(rows \ {first})

\* a scan loop that stops at the first row it cannot scan
RECURSIVE ScanUntilBadRow(_)
ScanUntilBadRow(hit) ==
  IF Len(hit) = 0 \/ ~Scannable(Head(hit)) THEN <<>>
  ELSE <<Scan(Head(hit))>> \o ScanUntilBadRow(Tail(hit))

GetMilkingRecordsUntilBadRow(rows, start, end, startOID, endOID) ==
  ScanUntilBadRow(OrderByOID({r \in rows : Matches(r, start, end, startOID, endOID)}))

GetMilkingRecordsWithOIDRange(rows, start, end, startOID, endOID) ==
  LET hit == OrderByOID({r \in rows : Matches(r, start, end, startOID, endOID)})
      ok == SelectSeq(hit, Scannable)
  IN [i \in 1..Len(ok) |-> Scan(ok[i])]

GetMilkingRecords(rows, start, end, lastOID) ==
  GetMilkingRecordsWithOIDRange(rows, start, end, lastOID, 0)

\* the OID of the first record returned
FirstOID(records) == IF Len(records) = 0 THEN 0 ELSE records[1].OID

\* the loop that finds the highest OID processed
HighestOID(records) ==
  LET oids == {records[i].OID : i \in 1..Len(records)} \cup {0}
  IN CHOOSE m \in oids : \A o \in oids : o <= m

\* session count per device over the last day, by BeginTime
GetDeviceUtilization(rows, t) ==
  LET recent == {r \in rows : r.BeginTime # Nil /\ Deref(r.BeginTime) >= t - UtilizationWindow}
      devs == {r.DeviceID : r \in recent}
  IN [d \in devs |-> Cardinality({r \in recent : r.DeviceID = d})]

DeviceMetricName(device) ==
  [name |-> MetricDeviceUtilization, key |-> <<"", device>>, teat |-> ""]

RECURSIVE SetDeviceGauges(_, _, _)
SetDeviceGauges(s, utilization, devs) ==
  IF devs = {} THEN s
  ELSE LET d == CHOOSE x \in devs : TRUE
       IN SetDeviceGauges(GaugeSet(s, DeviceMetricName(d), utilization[d]), utilization, devs \ {d})

CreateDeviceUtilizationMetrics(s, utilization) ==
  SetDeviceGauges(s, utilization, DOMAIN utilization)

InitializeCountersToZero(s, r) ==
  LET s1 == GaugeSet(s, MetricName(r, MetricMilkSessions), 0)
      s2 == GaugeSet(s1, MetricName(r, MetricMilkYieldTotal), 0)
  IN GaugeSet(s2, MetricName(r, MetricSomaticCellTotal), 0)

RECURSIVE initializeCounters(_, _)
initializeCounters(s, records) ==
  IF Len(records) = 0 THEN s
  ELSE initializeCounters(InitializeCountersToZero(s, Head(records)), Tail(records))

\* ------------------------------------------------------ request parameters
\* A query parameter is absent, empty, malformed, or a well-formed value.
Absent == [kind |-> "absent", val |-> 0]

Malformed == [kind |-> "bad", val |-> 0]

\* the parameter is in the query with an empty value
Empty == [kind |-> "empty", val |-> 0]

Given(v) == [kind |-> "value", val |-> v]

Has(param) == param.kind # "absent"

\* query.Get(name) != ""
NonEmpty(param) == param.kind \in {"bad", "value"}

parseOIDRange(req) ==
  LET startBad == NonEmpty(req.start_oid) /\ req.start_oid.kind = "bad"
      endBad == NonEmpty(req.end_oid) /\ req.end_oid.kind = "bad"
      startOID == IF NonEmpty(req.start_oid) THEN req.start_oid.val ELSE 0
      endOID == IF NonEmpty(req.end_oid) THEN req.end_oid.val ELSE 0
  IN IF startBad
     THEN [ok |-> FALSE, startOID |-> 0, endOID |-> 0,
           err |-> "invalid start_oid format, must be a valid integer"]
     ELSE IF endBad
     THEN [ok |-> FALSE, startOID |-> 0, endOID |-> 0,
           err |-> "invalid end_oid format, must be a valid integer"]
     ELSE IF endOID > 0 /\ startOID > endOID
     THEN [ok |-> FALSE, startOID |-> 0, endOID |-> 0,
           err |-> "start_oid must be less than or equal to end_oid"]
     ELSE [ok |-> TRUE, startOID |-> startOID, endOID |-> endOID, err |-> ""]

parseTimeRangeWithLocation(req, t) ==
  LET startBad == NonEmpty(req.start) /\ req.start.kind = "bad"
      endBad == NonEmpty(req.end) /\ req.end.kind = "bad"
      startTime == IF NonEmpty(req.start) THEN req.start.val ELSE t - HistoricalLookbackHours
      endTime == IF NonEmpty(req.end) THEN req.end.val ELSE t
  IN IF startBad
     THEN [ok |-> FALSE, start |-> 0, end |-> 0, err |-> "invalid start time format, use RFC3339 (2006-01-02T15:04:05Z) or date format (2006-01-02)"]
     ELSE IF endBad
     THEN [ok |-> FALSE, start |-> 0, end |-> 0, err |-> "invalid end time format, use RFC3339 (2006-01-02T15:04:05Z) or date format (2006-01-02)"]
     ELSE IF startTime > endTime
     THEN [ok |-> FALSE, start |-> 0, end |-> 0, err |-> "start time must be before end time"]
     ELSE [ok |-> TRUE, start |-> startTime, end |-> endTime, err |-> ""]

\* the validation at the head of WriteHistoricalMetrics: the resolved window
\* and OID range, or a client error
ParseRequest(req, t) ==
  LET o == IF Has(req.start_oid) THEN parseOIDRange(req)
           ELSE [ok |-> TRUE, startOID |-> 0, endOID |-> 0, err |-> ""]
      w == parseTimeRangeWithLocation(req, t)
  IN [ok |-> o.ok /\ w.ok, start |-> w.start, end |-> w.end,
      startOID |-> o.startOID, endOID |-> o.endOID,
      err |-> IF ~o.ok THEN o.err ELSE w.err]

Request(startOID, endOID, start, end) ==
  [start_oid |-> startOID, end_oid |-> endOID, start |-> start, end |-> end]

\* status 0: no response yet; highestOID 0: header X-Highest-OID not set
Response(status, highestOID, body, panic) ==
  [status |-> status, highestOID |-> highestOID, body |-> body, panic |-> panic]

\* gzip.Writer over a stream of lines: runs of equal lines are stored once
\* with their length
RECURSIVE Deflate(_, _)
Deflate(lines, blocks) ==
  IF Len(lines) = 0 THEN blocks
  ELSE IF Len(blocks) > 0 /\ blocks[Len(blocks)].line = Head(lines)
  THEN Deflate(Tail(lines), [blocks EXCEPT ![Len(blocks)].n = @ + 1])
  ELSE Deflate(Tail(lines), Append(blocks, [line |-> Head(lines), n |-> 1]))

Gzip(lines) == [encoding |-> "gzip", blocks |-> Deflate(lines, <<>>)]

\* the bytes written to the connection: through the gzip writer when the
\* client accepts gzip
Wire(acceptsGzip, lines) == IF acceptsGzip THEN Gzip(lines) ELSE lines

\* One exchange on /historical-metrics: the response r, with the request it
\* answers, whether the client accepts gzip, whether the record source was
\* queried and whether that query failed, the OIDs the query returned, and
\* the text of http.Error.
Exchange(r, req, acceptsGzip, queried, queryFailed, returned, reason) ==
  [status |-> r.status, highestOID |-> r.highestOID, body |-> r.body, panic |-> r.panic,
   req |-> req, acceptsGzip |-> acceptsGzip, queried |-> queried,
   queryFailed |-> queryFailed, returned |-> returned, reason |-> reason,
   wire |-> IF r.status = 200 THEN Wire(acceptsGzip, r.body) ELSE <<>>]

NoResponse ==
  Exchange(Response(0, 0, <<>>, FALSE), Request(Absent, Absent, Absent, Absent),
           FALSE, FALSE, FALSE, {}, "")

\* if err != nil, after a query of the record source
QueryErrorIgnored(dbOK) == FALSE

QueryError(dbOK) == ~dbOK

\* ------------------------------------------------------- checkpoint file
\* a start that ignores the checkpoint file
loadLastOIDIgnored(file) == 0

\* the file is missing (<<>>) or holds one decimal number
loadLastOID(file) == IF file = Nil THEN 0 ELSE Deref(file)

\* a cycle that never writes the checkpoint file
saveLastOIDSkipped(file, oid, writeOK) == file

\* os.WriteFile either replaces the content or fails and leaves the file
saveLastOID(file, oid, writeOK) == IF writeOK THEN Some(oid) ELSE file

\* SetLastOID without the comparison with the current cursor
SetLastOIDUnguarded(cur, file, newOID, writeOK) ==
  [lastOID |-> newOID, oidFile |-> saveLastOID(file, newOID, writeOK)]

\* SetLastOID(newOID) on cursor cur: the new cursor and file
SetLastOID(cur, file, newOID, writeOK) ==
  IF newOID > cur
  THEN [lastOID |-> newOID, oidFile |-> saveLastOID(file, newOID, writeOK)]
  ELSE [lastOID |-> cur, oidFile |-> file]

\* the tail of UpdateMetrics saving the cursor after every cycle
UpdateLastOIDAlways(records, cur, file, writeOK) ==
  [lastOID |-> Max(cur, HighestOID(records)),
   oidFile |-> saveLastOID(file, Max(cur, HighestOID(records)), writeOK),
   advanced |-> Len(records) > 0 /\ HighestOID(records) > cur]

\* the tail of UpdateMetrics that moves the cursor: only a non-empty batch
\* whose highest OID is above the cursor advances and saves it
UpdateLastOID(records, cur, file, writeOK) ==
  IF Len(records) > 0 /\ HighestOID(records) > cur
  THEN [lastOID |-> HighestOID(records),
        oidFile |-> saveLastOID(file, HighestOID(records), writeOK), advanced |-> TRUE]
  ELSE [lastOID |-> cur, oidFile |-> file, advanced |-> FALSE]

\* a handler that takes the highest OID it served for the cursor
CursorMovedByRequest(cur, highestOID) == Max(cur, highestOID)

\* the cursor after WriteHistoricalMetrics: the highest OID goes to the
\* X-Highest-OID header and e.lastOID is not assigned
CursorAfterRequest(cur, highestOID) == cur

\* ---------------------------------------------------------- TimestampWriter
\* Text is a sequence of one-character strings.
WhiteSpace == {" ", "\n"}

\* strings.Split(data, "\n"): the pieces between the newlines, one more than
\* there are newlines
RECURSIVE Split(_)
Split(data) ==
  IF \A i \in 1..Len(data) : data[i] # "\n" THEN <<data>>
  ELSE LET k == CHOOSE i \in 1..Len(data) :
                   data[i] = "\n" /\ \A j \in 1..(i - 1) : data[j] # "\n"
       IN <<SubSeq(data, 1, k - 1)>> \o Split(SubSeq(data, k + 1, Len(data)))

\* strings.TrimSpace
RECURSIVE TrimSpace(_)
TrimSpace(line) ==
  IF Len(line) = 0 THEN line
  ELSE IF Head(line) \in WhiteSpace THEN TrimSpace(Tail(line))
  ELSE IF line[Len(line)] \in WhiteSpace THEN TrimSpace(SubSeq(line, 1, Len(line) - 1))
  ELSE line

\* fmt.Fprintf(tw.writer, "%s %d\n", line, timestampMs)
Fprintf(line, timestampMs) == line \o <<" ", ToString(timestampMs), "\n">>

\* the loop over the complete lines: a line that is blank after TrimSpace is
\* passed over; the failAt-th Fprintf of the call fails (0: none does), which
\* ends the loop.  done counts the Fprintf calls made so far.
RECURSIVE EmitLines(_, _, _, _, _)
EmitLines(lines, timestampMs, out, done, failAt) ==
  IF Len(lines) = 0 THEN [out |-> out, err |-> FALSE]
  ELSE IF TrimSpace(Head(lines)) = <<>>
  THEN EmitLines(Tail(lines), timestampMs, out, done, failAt)
  ELSE IF done + 1 = failAt THEN [out |-> out, err |-> TRUE]
  ELSE EmitLines(Tail(lines), timestampMs, out \o Fprintf(Head(lines), timestampMs),
                 done + 1, failAt)

\* NewTimestampWriter(w, t); out is what the wrapped writer has received
NewTimestampWriter(t) == [timestamp |-> t, buffer |-> <<>>, out |-> <<>>]

\* a Write that resets the buffer whatever the last piece is
WriteDroppingFragment(w, p, failAt) ==
  LET pieces == Split(w.buffer \o p)
      e == EmitLines(SubSeq(pieces, 1, Len(pieces) - 1), UnixMilli(w.timestamp),
                     w.out, 0, failAt)
  IN [w |-> [w EXCEPT !.buffer = <<>>, !.out = e.out],
      n |-> IF e.err THEN 0 ELSE Len(p), err |-> e.err]

\* TimestampWriter.Write(p): the writer after the call and the call's results
Write(w, p, failAt) ==
  LET pieces == Split(w.buffer \o p)
      last == pieces[Len(pieces)]
      lines == IF last # <<>> THEN SubSeq(pieces, 1, Len(pieces) - 1) ELSE pieces
      e == EmitLines(lines, UnixMilli(w.timestamp), w.out, 0, failAt)
  IN [w |-> [w EXCEPT !.buffer = last, !.out = e.out],
      n |-> IF e.err THEN 0 ELSE Len(p), err |-> e.err]

\* TimestampWriter.Flush(): the buffer is kept when the Fprintf fails
Flush(w, writeOK) ==
  IF Len(w.buffer) > 0
  THEN LET line == TrimSpace(w.buffer) IN
       IF line # <<>> /\ ~writeOK THEN [w |-> w, err |-> TRUE]
       ELSE [w |-> [w EXCEPT !.buffer = <<>>,
                             !.out = IF line # <<>>
                                     THEN w.out \o Fprintf(line, UnixMilli(w.timestamp))
                                     ELSE w.out],
             err |-> FALSE]
  ELSE [w |-> w, err |-> FALSE]

\* ------------------------------------------------------------------- state
VARIABLES
  db,         \* rows of the record source
  now,        \* wall clock, minutes
  pc,         \* "down", "constructed", "running" or "panicked"
  lastOID,    \* DelProExporter.lastOID
  oidFile,    \* content of delpro_last_oid.txt
  registry,   \* the default metric set of the process
  applied,    \* OIDs applied to the default set in this process lifetime, with multiplicity
  override,   \* the -last-oid value, when the step just taken was main's startup (0: none)
  lastCycle,  \* what UpdateMetrics did, when the step just taken was a cycle
  resp,       \* the response, when the step just taken was a historical request
  tw,         \* a TimestampWriter, what it was given and what its last call returned
  call        \* the record-source query in flight, of a cycle or of a request

vars == <<db, now, pc, lastOID, oidFile, registry, applied, override, lastCycle, resp, tw,
          call>>

\* no query in flight.  elapsed is the time since the operation made its
\* context, in seconds; streaming is whether QueryContext has returned and the
\* rows are being read.
NoCall == [op |-> "none", elapsed |-> 0, streaming |-> FALSE]

\* no TimestampWriter under observation
NoWriter ==
  [w |-> NewTimestampWriter(0), n |-> 0, err |-> FALSE, text |-> <<>>, writes |-> 0,
   chunk |-> 0, failed |-> FALSE, flushed |-> FALSE]

\* the OIDs of a slice of records
OIDsOf(records) == {records[i].OID : i \in 1..Len(records)}

NoCycle ==
  [outcome |-> "none", advanced |-> FALSE, saved |-> FALSE, utilization |-> FALSE,
   queryFailed |-> FALSE, fetched |-> {}]

EmptyBag == [o \in {} |-> 0]

RECURSIVE BagAdd(_, _)
BagAdd(bag, oids) ==
  IF Len(oids) = 0 THEN bag
  ELSE BagAdd([o \in DOMAIN bag \cup {Head(oids)} |->
                 IF o = Head(oids) THEN Value(bag, o) + 1 ELSE bag[o]], Tail(oids))

\* ------------------------------------------------------------ input values
Animals == {"CH1", "CH2"}

Populated ==
  [Yield |-> 10, Conductivity |-> Some(5), SomaticCellCount |-> Some(100),
   DaysInLactation |-> Some(30), Incomplete |-> Some(0), Kickoff |-> Some(0)]

Flagged ==
  [Yield |-> 12, Conductivity |-> Some(6), SomaticCellCount |-> Nil,
   DaysInLactation |-> Nil, Incomplete |-> Some(5), Kickoff |-> Some(8)]

NoVoluntary ==
  [Yield |-> 11, Conductivity |-> Some(5), SomaticCellCount |-> Nil,
   DaysInLactation |-> Some(30), Incomplete |-> Nil, Kickoff |-> Nil]

NoConductivity ==
  [Yield |-> 12, Conductivity |-> Nil, SomaticCellCount |-> Some(100),
   DaysInLactation |-> Some(30), Incomplete |-> Some(0), Kickoff |-> Some(0)]

\* the clock advances in steps of 10 minutes, and by a day in its last step
LastShortTick == (MaxTicks - 1) * 10

TickStep(t) == IF t < LastShortTick THEN 10 ELSE 1440

\* rows a milking robot can add at time t under the next OID
LiveRows(oid, t) ==
  {Row(oid, a, "1", prof, Some(end - 6), end) :
     a \in Animals, prof \in {Populated, NoVoluntary}, end \in {t}}

LiveRequests ==
  { Request(Absent, Absent, Absent, Absent),
    Request(Absent, Absent, Malformed, Absent),
    Request(Given(1), Absent, Absent, Absent) }

\* values of the -last-oid flag: not given, or an operator-supplied floor
OverrideFlags == {0, 1}

\* ------------------------------------------------------------------ actions
Init ==
  /\ db = {}
  /\ now = 0
  /\ pc = "down"
  /\ lastOID = 0
  /\ oidFile = Nil
  /\ registry = EmptySet
  /\ applied = EmptyBag
  /\ override = 0
  /\ lastCycle = NoCycle
  /\ resp = NoResponse
  /\ tw = NoWriter
  /\ call = NoCall

\* a milking session completes and its row appears with the next OID
InsertRow ==
  /\ Cardinality(db) < MaxRows
  /\ now <= LastShortTick
  /\ \E row \in LiveRows(Cardinality(db) + 1, now) : db' = db \cup {row}
  /\ override' = 0 /\ lastCycle' = NoCycle /\ resp' = NoResponse
  /\ UNCHANGED <<now, pc, lastOID, oidFile, registry, applied, tw, call>>

Tick ==
  /\ now <= LastShortTick
  /\ now' = now + TickStep(now)
  /\ override' = 0 /\ lastCycle' = NoCycle /\ resp' = NoResponse
  /\ UNCHANGED <<db, pc, lastOID, oidFile, registry, applied, tw, call>>

\* NewDelProExporter: load the cursor, then zero the counters of the animals
\* of the last 24 h; a failed query leaves the registry empty
Construct ==
  /\ pc \in {"down", "panicked"}
  /\ \E dbOK \in BOOLEAN :
       registry' = IF dbOK
                   THEN initializeCounters(EmptySet,
                          GetMilkingRecords(db, now - DefaultLookbackWindow, now, 0))
                   ELSE EmptySet
  /\ lastOID' = loadLastOID(oidFile)
  /\ pc' = "constructed"
  /\ applied' = EmptyBag
  /\ override' = 0 /\ lastCycle' = NoCycle /\ resp' = NoResponse
  /\ UNCHANGED <<db, now, oidFile, tw, call>>

\* main: apply the -last-oid override, start the update loop and the server
StartLoop ==
  /\ pc = "constructed"
  /\ \E flag \in OverrideFlags, writeOK \in BOOLEAN :
       LET o == IF flag > 0 THEN SetLastOID(lastOID, oidFile, flag, writeOK)
                ELSE [lastOID |-> lastOID, oidFile |-> oidFile]
       IN lastOID' = o.lastOID /\ oidFile' = o.oidFile /\ override' = flag
  /\ pc' = "running"
  /\ lastCycle' = NoCycle /\ resp' = NoResponse
  /\ UNCHANGED <<db, now, registry, applied, tw, call>>

\* the process is stopped
Stop ==
  /\ pc = "running"
  /\ pc' = "down"
  /\ override' = 0 /\ lastCycle' = NoCycle /\ resp' = NoResponse
  /\ UNCHANGED <<db, now, lastOID, oidFile, registry, applied, tw, call>>

\* one call of UpdateMetrics; rows are the rows of the record source that the
\* scan loop of GetMilkingRecords gets to read
UpdateMetricsOver(rows) ==
  /\ pc = "running"
  /\ \E dbOK, writeOK, utilOK \in BOOLEAN :
       LET t == now - LiveDelay
           records == GetMilkingRecords(rows, t - DefaultLookbackWindow, t, lastOID)
           u == UpdateLastOID(records, lastOID, oidFile, writeOK)
       IN \E c \in {CreateMetricsFromRecords(registry, FALSE, records)} :
          IF QueryError(dbOK)
          THEN /\ lastCycle' = [NoCycle EXCEPT !.outcome = "error", !.queryFailed = TRUE]
               /\ UNCHANGED <<pc, lastOID, oidFile, registry, applied>>
          ELSE IF c.panic
          THEN /\ pc' = "panicked"
               /\ registry' = c.set
               /\ applied' = BagAdd(applied, Append(c.done, records[Len(c.done) + 1].OID))
               /\ lastCycle' = [NoCycle EXCEPT !.outcome = "panic", !.queryFailed = ~dbOK,
                                                !.fetched = OIDsOf(records)]
               /\ UNCHANGED <<lastOID, oidFile>>
          ELSE /\ lastOID' = u.lastOID
               /\ oidFile' = u.oidFile
               /\ registry' = IF utilOK
                              THEN CreateDeviceUtilizationMetrics(c.set, GetDeviceUtilization(db, now))
                              ELSE c.set
               /\ applied' = BagAdd(applied, c.done)
               /\ lastCycle' = [outcome |-> "done", advanced |-> u.advanced,
                                saved |-> u.advanced /\ writeOK, utilization |-> utilOK,
                                queryFailed |-> ~dbOK, fetched |-> OIDsOf(records)]
               /\ pc' = pc
  /\ override' = 0 /\ resp' = NoResponse /\ call' = NoCall
  /\ UNCHANGED <<db, now, tw>>

\* one call of UpdateMetrics by the update loop
UpdateMetrics == UpdateMetricsOver(db)

\* WriteHistoricalMetrics for one request drawn from requests, from a client
\* whose Accept-Encoding is drawn from encodings
HandleOver(rows, requests, encodings) ==
  /\ pc = "running"
  /\ \E req \in requests, acceptsGzip \in encodings, dbOK \in BOOLEAN :
       LET p == ParseRequest(req, now) IN
       IF ~p.ok
       THEN /\ resp' = Exchange(Response(400, 0, <<>>, FALSE), req, acceptsGzip,
                                FALSE, FALSE, {}, p.err)
            /\ registry' = registry
       ELSE IF QueryError(dbOK)
       THEN /\ resp' = Exchange(Response(500, 0, <<>>, FALSE), req, acceptsGzip,
                                TRUE, TRUE, {}, "Internal server error")
            /\ registry' = registry
       ELSE LET records == GetMilkingRecordsWithOIDRange(rows, p.start, p.end, p.startOID, p.endOID)
            IN \E keyOrder \in Orders(LabelKeys(records)), animalOrder \in Orders(RegNos(records)) :
                 \E w \in {WriteHistoricalMetricsWithInit(registry, records,
                                                           keyOrder, animalOrder)} :
                    /\ resp' = Exchange(Response(200, HighestOID(records), w.out, w.panic),
                                        req, acceptsGzip, TRUE, ~dbOK,
                                        {records[i].OID : i \in 1..Len(records)}, "")
                    /\ registry' = w.shared
  /\ lastOID' = CursorAfterRequest(lastOID, resp'.highestOID)
  /\ override' = 0 /\ lastCycle' = NoCycle /\ call' = NoCall
  /\ UNCHANGED <<db, now, pc, oidFile, applied, tw>>

Handle(requests, encodings) == HandleOver(db, requests, encodings)

\* one request to /historical-metrics while the update loop runs
HistoricalRequest == Handle(LiveRequests, {FALSE})

Next ==
  \/ InsertRow
  \/ Tick
  \/ Construct
  \/ StartLoop
  \/ Stop
  \/ UpdateMetrics
  \/ HistoricalRequest

Spec == Init /\ [][Next]_vars

\* the reports a cycle can leave
CycleReports ==
  [outcome : {"done", "error", "panic"}, advanced : BOOLEAN, saved : BOOLEAN,
   utilization : BOOLEAN, queryFailed : BOOLEAN, fetched : SUBSET (1..MaxRows)]

\* One iteration of the update loop.  UpdateMetrics is the only step that leaves
\* a cycle report, and it can be taken whenever the process runs, so the steps
\* of LoopIteration allowed by Next are the steps of UpdateMetrics.
LoopIteration == pc = "running" /\ lastCycle' \in CycleReports

\* The update loop calls UpdateMetrics again after every sleep for as long as
\* the process runs, and time passes.
SpecLive == Spec /\ WF_lastCycle(LoopIteration) /\ WF_vars(Tick)

\* ------------------------------------------- historical replay on its own
\* The handler applied to every result set of up to MaxBatch rows.
ReplayKeys == {<<"CH1", "1">>, <<"CH1", "2">>, <<"CH2", "1">>}

ReplayShapes ==
  [key : ReplayKeys, prof : {Populated, NoVoluntary}, EndTime : {100, 140}]

ReplayRow(oid, shape) ==
  Row(oid, shape.key[1], shape.key[2], shape.prof,
      Some(shape.EndTime - 6), shape.EndTime)

ReplayRequests == {Request(Absent, Absent, Absent, Absent)}

InitReplay ==
  /\ \E n \in 1..MaxBatch : \E f \in [1..n -> ReplayShapes] :
       db = {ReplayRow(i, f[i]) : i \in 1..n}
  /\ now = 200
  /\ pc = "running"
  /\ lastOID = 0
  /\ oidFile = Nil
  /\ registry = EmptySet
  /\ applied = EmptyBag
  /\ override = 0
  /\ lastCycle = NoCycle
  /\ resp = NoResponse
  /\ tw = NoWriter
  /\ call = NoCall

\* one request per behaviour
Replay == resp.status = 0 /\ Handle(ReplayRequests, BOOLEAN)

NextReplay == Replay

SpecReplay == InitReplay /\ [][NextReplay]_vars

\* ------------------------------------------ request validation on its own
\* The handler applied to every combination of query parameters, over a
\* table of up to MaxOID sessions that ended at minute 100 or 101.
RequestShapes == {<<"CH1", 100>>, <<"CH1", 101>>, <<"CH2", 100>>}

RequestRows(n) ==
  { {Row(i, f[i][1], "1", Populated, Some(f[i][2] - 6), f[i][2]) : i \in 1..n} :
      f \in [1..n -> RequestShapes] }

OIDValues == {Given(v) : v \in 0..MaxOID}

StartOIDParams == {Absent, Empty, Malformed} \cup OIDValues

EndOIDParams == {Absent, Malformed, Given(-1)} \cup OIDValues

\* start and end: defaults, malformed, a window over minute 100, an empty
\* window, and a window that ends before it starts
TimeParams ==
  { <<Absent, Absent>>, <<Malformed, Absent>>, <<Absent, Malformed>>,
    <<Given(100), Given(101)>>, <<Given(100), Given(100)>>, <<Given(101), Given(100)>> }

ValidationRequests ==
  {Request(so, eo, t[1], t[2]) : so \in StartOIDParams, eo \in EndOIDParams, t \in TimeParams}

InitRequests ==
  /\ \E n \in 0..MaxOID : db \in RequestRows(n)
  /\ now = 200
  /\ pc = "running"
  /\ lastOID = 0
  /\ oidFile = Nil
  /\ registry = EmptySet
  /\ applied = EmptyBag
  /\ override = 0
  /\ lastCycle = NoCycle
  /\ resp = NoResponse
  /\ tw = NoWriter
  /\ call = NoCall

\* one request per behaviour
Validate == resp.status = 0 /\ Handle(ValidationRequests, {FALSE})

NextRequests == Validate

SpecRequests == InitRequests /\ [][NextRequests]_vars

\* ------------------------------------------------- the engine on its own
\* CreateMetricsFromRecords applied up to MaxApply times to one metric set,
\* each time to the same records, up to MaxSeq of them, in any input order.
TeatProfile(bitfield) ==
  [Populated EXCEPT !.Incomplete = Some(bitfield), !.Kickoff = Some(15 - bitfield)]

EngineShapes ==
  [key : {<<"CH1", "1">>, <<"CH2", "1">>},
   prof : {Populated, Flagged, NoVoluntary, NoConductivity}, EndTime : {100, 140}]
  \cup [key : {<<"CH1", "1">>}, prof : {TeatProfile(b) : b \in 1..15}, EndTime : {100}]

\* the records in every order a caller can pass them
EngineInputs(rows) ==
  {[i \in 1..Cardinality(rows) |-> Scan(p[i])] : p \in Orders(rows)}

InitEngine ==
  /\ \E n \in 1..MaxSeq : \E f \in [1..n -> EngineShapes] :
       db = {ReplayRow(i, f[i]) : i \in 1..n}
  /\ now = 200
  /\ pc = "running"
  /\ lastOID = 0
  /\ oidFile = Nil
  /\ registry = EmptySet
  /\ applied = EmptyBag
  /\ override = 0
  /\ lastCycle = NoCycle
  /\ resp = NoResponse
  /\ tw = NoWriter
  /\ call = NoCall

\* one call CreateMetricsFromRecords(nil, nil, records) on the default set,
\* the cursor staying where it is; lastCycle.input is the slice passed
Apply ==
  /\ pc = "running"
  /\ \A o \in DOMAIN applied : applied[o] < MaxApply
  /\ \E records \in EngineInputs(db) :
       \E c \in {CreateMetricsFromRecords(registry, FALSE, records)} :
          /\ registry' = c.set
          /\ applied' = BagAdd(applied, IF c.panic
                                        THEN Append(c.done, records[Len(c.done) + 1].OID)
                                        ELSE c.done)
          /\ pc' = IF c.panic THEN "panicked" ELSE "running"
          /\ lastCycle' = [outcome |-> IF c.panic THEN "panic" ELSE "done",
                           advanced |-> FALSE, saved |-> FALSE, utilization |-> FALSE,
                           queryFailed |-> FALSE, fetched |-> OIDsOf(records),
                           input |-> records]
  /\ override' = 0 /\ resp' = NoResponse
  /\ UNCHANGED <<db, now, lastOID, oidFile, tw, call>>

NextEngine == Apply

SpecEngine == InitEngine /\ [][NextEngine]_vars

\* ------------------------------------------------- row scanning on its own
\* One live cycle or one historical request over a table of up to MaxBatch
\* sessions, some of them with a NULL BeginTime, which rows.Scan cannot store
\* in a time.Time.
ScanShapes ==
  [key : {<<"CH1", "1">>, <<"CH2", "1">>}, EndTime : {100, 140}, scans : BOOLEAN]

ScanRow(oid, shape) ==
  Row(oid, shape.key[1], shape.key[2], Populated,
      IF shape.scans THEN Some(shape.EndTime - 6) ELSE Nil, shape.EndTime)

InitScan ==
  /\ \E n \in 1..MaxBatch : \E f \in [1..n -> ScanShapes] :
       db = {ScanRow(i, f[i]) : i \in 1..n}
  /\ now = 200
  /\ pc = "running"
  /\ lastOID = 0
  /\ oidFile = Nil
  /\ registry = EmptySet
  /\ applied = EmptyBag
  /\ override = 0
  /\ lastCycle = NoCycle
  /\ resp = NoResponse
  /\ tw = NoWriter
  /\ call = NoCall

\* one operation per behaviour
ScanCycle == lastCycle.outcome = "none" /\ resp.status = 0 /\ UpdateMetrics

ScanRequest == lastCycle.outcome = "none" /\ resp.status = 0 /\ Handle(ReplayRequests, {FALSE})

NextScan ==
  \/ ScanCycle
  \/ ScanRequest

SpecScan == InitScan /\ [][NextScan]_vars

\* ------------------------------------------------ TimestampWriter on its own
\* One writer, given a text chunk by chunk and flushed at the end.
MaxText == 6

MaxChunk == 3

MaxWrites == 4

Chars == {"a", " ", "\n"}

Chunks == UNION {[1..k -> Chars] : k \in 0..MaxChunk}

InitWriter ==
  /\ db = {}
  /\ now = 200
  /\ pc = "running"
  /\ lastOID = 0
  /\ oidFile = Nil
  /\ registry = EmptySet
  /\ applied = EmptyBag
  /\ override = 0
  /\ lastCycle = NoCycle
  /\ resp = NoResponse
  /\ \E t \in {100, 140} : tw = [NoWriter EXCEPT !.w = NewTimestampWriter(t)]
  /\ call = NoCall

\* one call of tw.Write(p)
WriteChunk ==
  /\ ~tw.flushed
  /\ tw.writes < MaxWrites
  /\ \E p \in Chunks, failAt \in 0..2 :
       /\ Len(tw.text) + Len(p) <= MaxText
       /\ \E c \in {Write(tw.w, p, failAt)} :
            tw' = [w |-> c.w, n |-> c.n, err |-> c.err, text |-> tw.text \o p,
                   writes |-> tw.writes + 1, chunk |-> Len(p),
                   failed |-> tw.failed \/ c.err, flushed |-> FALSE]
  /\ UNCHANGED <<db, now, pc, lastOID, oidFile, registry, applied, override, lastCycle, resp, call>>

\* the call of tw.Flush() that ends the use of the writer
FlushWriter ==
  /\ ~tw.flushed
  /\ \E writeOK \in BOOLEAN :
       \E c \in {Flush(tw.w, writeOK)} :
          tw' = [tw EXCEPT !.w = c.w, !.err = c.err, !.failed = tw.failed \/ c.err,
                           !.flushed = TRUE]
  /\ UNCHANGED <<db, now, pc, lastOID, oidFile, registry, applied, override, lastCycle, resp, call>>

NextWriter ==
  \/ WriteChunk
  \/ FlushWriter

SpecWriter == InitWriter /\ [][NextWriter]_vars

\* ------------------------------------------------ a stalling record source
\* One cycle or one request whose query may stall at any point, in steps of
\* TimeStep seconds.
TimeStep == 10

CycleTimeout == 30

RequestTimeout == 60

\* context.WithTimeout: the time after which the context of the operation is done
Deadline(op) == IF op = "cycle" THEN CycleTimeout ELSE RequestTimeout

InitTimeout ==
  /\ \E n \in 1..MaxBatch : \E f \in [1..n -> ScanShapes] :
       db = {ScanRow(i, f[i]) : i \in 1..n}
  /\ now = 200
  /\ pc = "running"
  /\ lastOID = 0
  /\ oidFile = Nil
  /\ registry = EmptySet
  /\ applied = EmptyBag
  /\ override = 0
  /\ lastCycle = NoCycle
  /\ resp = NoResponse
  /\ tw = NoWriter
  /\ call = NoCall

\* UpdateMetrics makes its context and sends the query for the records
BeginCycle ==
  /\ pc = "running" /\ call.op = "none" /\ lastCycle.outcome = "none" /\ resp.status = 0
  /\ call' = [op |-> "cycle", elapsed |-> 0, streaming |-> FALSE]
  /\ UNCHANGED <<db, now, pc, lastOID, oidFile, registry, applied, override, lastCycle, resp, tw>>

\* WriteHistoricalMetrics makes its context and sends the query
BeginRequest ==
  /\ pc = "running" /\ call.op = "none" /\ lastCycle.outcome = "none" /\ resp.status = 0
  /\ call' = [op |-> "request", elapsed |-> 0, streaming |-> FALSE]
  /\ UNCHANGED <<db, now, pc, lastOID, oidFile, registry, applied, override, lastCycle, resp, tw>>

\* the record source does not answer for another TimeStep seconds
Stall ==
  /\ call.op # "none" /\ call.elapsed < Deadline(call.op)
  /\ call' = [call EXCEPT !.elapsed = @ + TimeStep]
  /\ UNCHANGED <<db, now, pc, lastOID, oidFile, registry, applied, override, lastCycle, resp, tw>>

\* QueryContext returns and the scan loop starts reading rows
RowsStart ==
  /\ call.op # "none" /\ ~call.streaming /\ call.elapsed < Deadline(call.op)
  /\ call' = [call EXCEPT !.streaming = TRUE]
  /\ UNCHANGED <<db, now, pc, lastOID, oidFile, registry, applied, override, lastCycle, resp, tw>>

\* the rows with the b lowest OIDs, the part of an OID-ordered result set read
\* when rows.Next() returns false early
ReadUpTo(b) == {r \in db : r.OID <= b}

\* the queries of the cycle are answered, or fail, before the deadline
CycleReturns ==
  /\ call.op = "cycle" /\ call.elapsed < CycleTimeout
  /\ UpdateMetrics

\* the context of the cycle is done.  Before QueryContext has returned the
\* query fails with the context's error.  In the scan loop rows.Next() returns
\* false, the loop ends, rows.Err() is not consulted and the rows read so far
\* are returned with a nil error; the utilization query on the same context
\* then fails.
CycleDeadline ==
  /\ call.op = "cycle" /\ call.elapsed >= CycleTimeout
  /\ IF call.streaming
     THEN \E b \in 0..MaxBatch :
            /\ UpdateMetricsOver(ReadUpTo(b))
            /\ ~lastCycle'.queryFailed /\ ~lastCycle'.utilization
     ELSE UpdateMetrics /\ lastCycle'.outcome = "error"

\* the query of the request is answered, or fails, before the deadline
RequestReturns ==
  /\ call.op = "request" /\ call.elapsed < RequestTimeout
  /\ Handle(ReplayRequests, {FALSE})
  /\ resp'.queried

\* the context of the request is done, by its deadline or because the client
\* went away: as for the cycle
ContextDone ==
  IF call.streaming
  THEN \E b \in 0..MaxBatch :
         HandleOver(ReadUpTo(b), ReplayRequests, {FALSE}) /\ resp'.status = 200
  ELSE Handle(ReplayRequests, {FALSE}) /\ resp'.status = 500

RequestDeadline ==
  /\ call.op = "request" /\ call.elapsed >= RequestTimeout
  /\ ContextDone

ClientDisconnect ==
  /\ call.op = "request" /\ call.elapsed < RequestTimeout
  /\ ContextDone

NextTimeout ==
  \/ BeginCycle
  \/ BeginRequest
  \/ Stall
  \/ RowsStart
  \/ CycleReturns
  \/ CycleDeadline
  \/ RequestReturns
  \/ RequestDeadline
  \/ ClientDisconnect

\* the step in which an operation whose context is past its deadline ends: by
\* NextTimeout a step of CycleDeadline or RequestDeadline, one of which can be
\* taken whenever the deadline has passed
DeadlineFires ==
  /\ call.op # "none" /\ call.elapsed >= Deadline(call.op)
  /\ call' = NoCall

\* Time passes while a query is in flight, and the timer of the context fires.
SpecTimeout == InitTimeout /\ [][NextTimeout]_vars /\ WF_call(Stall) /\ WF_call(DeadlineFires)

\* ------------------------------------------------- properties: live mode
FileValue(file) == IF file = <<>> THEN 0 ELSE file[1]

RECURSIVE SumYield(_)
SumYield(rows) ==
  IF rows = {} THEN 0
  ELSE LET r == CHOOSE x \in rows : TRUE IN r.Yield + SumYield(rows \ {r})

KeyOf(r) == <<r.AnimalRegNo, r.DeviceID>>

Series(metric, key) == [name |-> metric, key |-> key, teat |-> ""]

AppliedRows(key) == {r \in db : KeyOf(r) = key /\ r.OID \in DOMAIN applied}

AnimalSeries(s) ==
  [id \in {i \in DOMAIN s : i.name # MetricDeviceUtilization} |-> s[id]]

\* the batch a live-update cycle would fetch in the current state
LiveRecords ==
  GetMilkingRecords(db, now - LiveDelay - DefaultLookbackWindow, now - LiveDelay, lastOID)

\* C1: within one process lifetime every record is applied to the live
\* registry at most once, so the session counter of an animal is the number of
\* its applied records and its yield-total is the sum of their yields.
C1_AppliedAtMostOnce ==
  /\ \A o \in DOMAIN applied : applied[o] = 1
  /\ \A r \in db :
       /\ Value(registry, Series(MetricMilkSessions, KeyOf(r)))
            = Cardinality(AppliedRows(KeyOf(r)))
       /\ Value(registry, Series(MetricMilkYieldTotal, KeyOf(r)))
            = SumYield(AppliedRows(KeyOf(r)))

\* two records of one animal were applied and a later cycle of the same
\* lifetime, run with the cursor at the highest OID, added nothing
C1_Witness ==
  /\ lastCycle.outcome = "done"
  /\ ~lastCycle.advanced
  /\ \E r \in db : /\ Value(registry, Series(MetricMilkSessions, KeyOf(r))) = 2
                   /\ Value(registry, Series(MetricMilkYieldTotal, KeyOf(r))) = 20
                   /\ lastOID = 2

C3_EmptyCycleChangesNothing ==
  [][ (lastCycle'.outcome # "none" /\ LiveRecords = <<>>) =>
        /\ lastOID' = lastOID
        /\ oidFile' = oidFile
        /\ AnimalSeries(registry') = AnimalSeries(registry) ]_vars

\* a cycle ran to its end without new records after an earlier cycle of the
\* same lifetime had applied some
C3_Witness ==
  /\ lastCycle.outcome = "done"
  /\ ~lastCycle.advanced
  /\ lastCycle.utilization
  /\ lastOID \in DOMAIN applied
  /\ oidFile = <<>>

\* C4: a record with an absent conductivity, duration, incomplete or kickoff
\* field never makes the engine panic, in the update loop or in a request.
C4_NeverPanics == pc # "panicked" /\ ~resp.panic

\* ------------------------------------------- properties: historical replay
KeyRows(key) == {r \in db : KeyOf(r) = key}

EarliestEnd(key) ==
  CHOOSE t \in {r.EndTime : r \in KeyRows(key)} : \A r \in KeyRows(key) : t <= r.EndTime

LatestEnd(key) ==
  CHOOSE t \in {r.EndTime : r \in KeyRows(key)} : \A r \in KeyRows(key) : r.EndTime <= t

\* the five series that get a leading zero point
ZeroSeries(key) ==
  { Series(MetricMilkSessions, key), Series(MetricMilkYieldTotal, key),
    Series(MetricSomaticCellTotal, key),
    SumName(Series(MetricMilkingDuration, key)),
    CountName(Series(MetricMilkingDuration, key)) }

\* positions of the response body that hold a line written for a record of key
RecordLines(key) ==
  {j \in DOMAIN resp.body : resp.body[j].oid # 0 /\ resp.body[j].id.key = key}

\* the value of the last line of series id in the response body
LastValue(id) ==
  LET idx == {i \in DOMAIN resp.body : resp.body[i].id = id}
  IN IF idx = {} THEN -1
     ELSE resp.body[CHOOSE i \in idx : \A j \in idx : j <= i].value

\* C5: for every label key with a record in the window, the stream holds a
\* zero point of the session counter, the yield total, the somatic cell total
\* and the duration histogram's sum and count, each stamped 10 minutes before
\* the earliest EndTime of the key's records, and each before every line
\* written for a record of that key.
C5_LeadingZeroPoints ==
  resp.status = 200 =>
    \A r \in db :
      LET key == KeyOf(r)
          ts == (EarliestEnd(key) - 10) * 60000
      IN \A id \in ZeroSeries(key) :
           \E i \in DOMAIN resp.body :
             /\ resp.body[i].id = id
             /\ resp.body[i].value = 0
             /\ resp.body[i].ts = ts
             /\ \A j \in RecordLines(key) : i < j

\* two keys were replayed, one of them with two records of which the later
\* OID has the earlier EndTime, and lines were written for its records
C5_Witness ==
  /\ resp.status = 200
  /\ \E r1, r2, r3 \in db :
       /\ KeyOf(r1) = KeyOf(r2)
       /\ r1.OID < r2.OID
       /\ r2.EndTime < r1.EndTime
       /\ KeyOf(r3) # KeyOf(r1)
       /\ RecordLines(KeyOf(r1)) # {}

\* C6: for a key whose records span the EndTimes t0..t1, the stream also holds
\* a zero session-counter point at t1 + 10 minutes after the last line
\* written for the key's records, and no point of the key is stamped outside
\* [t0 - 10 minutes, t1 + 10 minutes].
C6_TwoSidedBracket ==
  resp.status = 200 =>
    \A r \in db :
      LET key == KeyOf(r)
          lo == (EarliestEnd(key) - 10) * 60000
          hi == (LatestEnd(key) + 10) * 60000
      IN /\ \E i \in DOMAIN resp.body :
              /\ resp.body[i].id = Series(MetricMilkSessions, key)
              /\ resp.body[i].value = 0
              /\ resp.body[i].ts = hi
              /\ \A j \in RecordLines(key) : j < i
         /\ \A j \in DOMAIN resp.body :
              resp.body[j].id.key = key => lo <= resp.body[j].ts /\ resp.body[j].ts <= hi

\* C7: in a replayed window the last yield-total line of every key carries
\* the sum of the yields of the key's own records and its last session-counter
\* line carries the number of the key's own records, whatever other keys are
\* in the window and in whatever order the partitions are replayed.
C7_PartitionIsolation ==
  resp.status = 200 =>
    \A r \in db :
      LET key == KeyOf(r)
      IN /\ LastValue(Series(MetricMilkYieldTotal, key)) = SumYield(KeyRows(key))
         /\ LastValue(Series(MetricMilkSessions, key)) = Cardinality(KeyRows(key))

\* the same statement for the replays that no nil dereference cut short
PartitionIsolationOfCompleteReplays ==
  (resp.status = 200 /\ ~resp.panic) =>
    \A r \in db :
      LET key == KeyOf(r)
      IN /\ LastValue(Series(MetricMilkYieldTotal, key)) = SumYield(KeyRows(key))
         /\ LastValue(Series(MetricMilkSessions, key)) = Cardinality(KeyRows(key))

\* C8: a historical request, whatever its status, leaves the cursor, the
\* checkpoint file and the default metric set as they are, and a rejected
\* request changes nothing else either.
C8_HistoricalLeavesLiveState ==
  [][ resp'.status # 0 =>
        /\ resp'.status \in {200, 400, 500}
        /\ lastOID' = lastOID
        /\ oidFile' = oidFile
        /\ registry' = registry
        /\ (resp'.status = 400 => db' = db /\ now' = now /\ pc' = pc /\ applied' = applied) ]_vars

\* a request was answered with metric lines while the default set holds
\* records applied by the update loop
C8_Witness ==
  /\ resp.status = 200
  /\ Len(resp.body) > 0
  /\ applied # EmptyBag
  /\ lastOID > 0

ParamValue(param) == IF param.kind = "value" THEN param.val ELSE 0

\* the time window a request resolves to at time t
WindowStart(req, t) == IF req.start.kind = "value" THEN req.start.val ELSE t - HistoricalLookbackHours

WindowEnd(req, t) == IF req.end.kind = "value" THEN req.end.val ELSE t

InWindow(r, req, t) == WindowStart(req, t) <= r.EndTime /\ r.EndTime < WindowEnd(req, t)

InOIDRange(r, req) ==
  /\ ParamValue(req.start_oid) < r.OID
  /\ (ParamValue(req.end_oid) > 0 => r.OID <= ParamValue(req.end_oid))

OIDMode(req) == req.start_oid.kind # "absent"

C12_OIDOrderEnforced ==
  (resp.status # 0 /\ OIDMode(resp.req)) =>
    ( ( \/ resp.req.start_oid.kind = "bad"
        \/ resp.req.end_oid.kind = "bad"
        \/ /\ resp.req.start_oid.kind = "value"
           /\ resp.req.end_oid.kind = "value"
           /\ resp.req.start_oid.val > resp.req.end_oid.val )
      => (resp.status = 400 /\ resp.reason # "" /\ ~resp.queried) )

\* the part of C12 the handler keeps: a malformed OID, or a start_oid above a
\* positive end_oid, is answered 400 before any query
OIDOrderEnforcedForPositiveEnd ==
  (resp.status # 0 /\ OIDMode(resp.req)) =>
    ( ( \/ resp.req.start_oid.kind = "bad"
        \/ resp.req.end_oid.kind = "bad"
        \/ /\ resp.req.start_oid.kind = "value"
           /\ resp.req.end_oid.kind = "value"
           /\ resp.req.end_oid.val > 0
           /\ resp.req.start_oid.val > resp.req.end_oid.val )
      => (resp.status = 400 /\ resp.reason # "" /\ ~resp.queried) )

\* C13: every request whose resolved start is not strictly before its
\* resolved end is answered 400, and no query of the record source is issued.
C13_StartStrictlyBeforeEnd ==
  ( /\ resp.status # 0
    /\ resp.req.start.kind # "bad"
    /\ resp.req.end.kind # "bad"
    /\ WindowStart(resp.req, now) >= WindowEnd(resp.req, now) )
  => (resp.status = 400 /\ ~resp.queried)

\* the part of C13 the handler keeps: a start after the end is answered 400
\* before any query
StartAfterEndRejected ==
  ( /\ resp.status # 0
    /\ resp.req.start.kind # "bad"
    /\ resp.req.end.kind # "bad"
    /\ WindowStart(resp.req, now) > WindowEnd(resp.req, now) )
  => (resp.status = 400 /\ ~resp.queried)

Selected(req, t) ==
  {r \in db : InWindow(r, req, t) /\ (OIDMode(req) => InOIDRange(r, req))}

MaxOIDOf(rows) == CHOOSE m \in {r.OID : r \in rows} : \A r \in rows : r.OID <= m

\* C16: on every historical request answered 200 that returned at least one
\* record, the X-Highest-OID header is the highest OID of all the records
\* returned, whatever their animal; it is set before the body is written, so
\* it holds that value also when the body is cut short.
C16_HighestOIDHeader ==
  (resp.status = 200 /\ Selected(resp.req, now) # {}) =>
    /\ resp.returned = {r.OID : r \in Selected(resp.req, now)}
    /\ resp.highestOID = MaxOIDOf(Selected(resp.req, now))
    /\ \A o \in resp.returned : o <= resp.highestOID

\* MaxBatch records of two animals were returned, the first and the last of
\* them from different animals, and every line was written
C16_Witness ==
  /\ resp.status = 200
  /\ ~resp.panic
  /\ Len(resp.body) > 0
  /\ resp.returned = 1..MaxBatch
  /\ resp.highestOID = MaxBatch
  /\ \E a, b \in db : a.OID = 1 /\ b.OID = MaxBatch /\ a.AnimalRegNo # b.AnimalRegNo

\* ------------------------------------------------- properties: compression
\* what a client reads from the connection: the lines themselves, or each
\* stored run written out again
RECURSIVE Inflate(_)
Inflate(blocks) ==
  IF Len(blocks) = 0 THEN <<>>
  ELSE [i \in 1..Head(blocks).n |-> Head(blocks).line] \o Inflate(Tail(blocks))

Gunzip(wire) == IF DOMAIN wire = {"encoding", "blocks"} THEN Inflate(wire.blocks) ELSE wire

\* the records the request of the response was answered from
AnsweredRecords ==
  GetMilkingRecordsWithOIDRange(db, WindowStart(resp.req, now), WindowEnd(resp.req, now),
                                ParamValue(resp.req.start_oid), ParamValue(resp.req.end_oid))

\* every body the handler can write without compression for those records
UncompressedBodies ==
  { WriteHistoricalMetricsWithInit(registry, AnsweredRecords, keyOrder, animalOrder).out :
      keyOrder \in Orders(LabelKeys(AnsweredRecords)),
      animalOrder \in Orders(RegNos(AnsweredRecords)) }

\* C17: the body of a response requested with Accept-Encoding: gzip, once
\* gunzipped, is identical to the uncompressed response for the same
\* parameters and records: the line sequence is a function of the record list.
C17_GzipRoundTrip ==
  (resp.status = 200 /\ resp.acceptsGzip) =>
    \A body \in UncompressedBodies : Gunzip(resp.wire) = body

\* compression itself loses nothing: the gunzipped bytes are the lines the
\* handler wrote for this response, and one of the uncompressed bodies
GzipIsLossless ==
  (resp.status = 200 /\ resp.acceptsGzip) =>
    /\ Gunzip(resp.wire) = resp.body
    /\ Gunzip(resp.wire) \in UncompressedBodies

\* with the records of a single label key there is one order to write them in
OneKeyOneBody ==
  (resp.status = 200 /\ Cardinality(LabelKeys(AnsweredRecords)) = 1) =>
    Cardinality(UncompressedBodies) = 1

\* ------------------------------------------------- properties: teat decode
\* the names of the four teats, as Teat.String gives them and as English
\* category names, in the order of the bits 1, 2, 4, 8
CodeNames == <<"AvG", "AvD", "ArG", "ArD">>

EnglishNames == <<"left_front", "right_front", "left_rear", "right_rear">>

\* the names of the bits set in a bitfield of 0..15, lowest bit first
NamesOf(bitfield, names) ==
  (IF bitfield % 2 = 1 THEN <<names[1]>> ELSE <<>>)
  \o (IF (bitfield \div 2) % 2 = 1 THEN <<names[2]>> ELSE <<>>)
  \o (IF (bitfield \div 4) % 2 = 1 THEN <<names[3]>> ELSE <<>>)
  \o (IF bitfield \div 8 = 1 THEN <<names[4]>> ELSE <<>>)

\* the names joined by commas, "none" for no name
LabelOf(bitfield, names) ==
  LET n == NamesOf(bitfield, names)
  IN IF Len(n) = 0 THEN "none"
     ELSE IF Len(n) = 1 THEN n[1]
     ELSE IF Len(n) = 2 THEN n[1] \o "," \o n[2]
     ELSE IF Len(n) = 3 THEN n[1] \o "," \o n[2] \o "," \o n[3]
     ELSE n[1] \o "," \o n[2] \o "," \o n[3] \o "," \o n[4]

\* the teat labels of the series of one metric that the set holds for a key
TeatLabels(metric, key) ==
  {id.teat : id \in {x \in DOMAIN registry : x.name = metric /\ x.key = key}}

\* the decode of every applied record of complete applications agrees with
\* the given names: the list, the label, and the series the engine created
DecodesWith(names) ==
  (pc = "running" /\ DOMAIN applied # {}) =>
    \A r \in db :
      /\ GetAffectedTeats(Deref(r.Incomplete)) = NamesOf(Deref(r.Incomplete), names)
      /\ GetAffectedTeatsString(Deref(r.Incomplete)) = LabelOf(Deref(r.Incomplete), names)
      /\ GetAffectedTeats(Deref(r.Kickoff)) = NamesOf(Deref(r.Kickoff), names)
      /\ GetAffectedTeatsString(Deref(r.Kickoff)) = LabelOf(Deref(r.Kickoff), names)
      /\ TeatLabels(MetricIncomplete, KeyOf(r)) =
           UNION {SeqRange(NamesOf(Deref(x.Incomplete), names)) : x \in KeyRows(KeyOf(r))}
      /\ TeatLabels(MetricIncompleteTeats, KeyOf(r)) =
           {LabelOf(Deref(x.Incomplete), names) : x \in KeyRows(KeyOf(r))} \ {"none"}
      /\ TeatLabels(MetricKickoffTeats, KeyOf(r)) =
           {LabelOf(Deref(x.Kickoff), names) : x \in KeyRows(KeyOf(r))} \ {"none"}

\* C18 as stated: for every bitfield 0..15 the decoder returns the teats whose
\* bit is set, in the order left-front, right-front, left-rear, right-rear,
\* under the names left_front, right_front, left_rear, right_rear; the label
\* joins them with commas (9 gives "left_front,right_rear"), and 0 gives no
\* teat and the label "none".
C18_TeatDecodeEnglish == DecodesWith(EnglishNames)

\* C18 amended: the same decode under the names Teat.String returns, AvG,
\* AvD, ArG, ArD (9 gives "AvG,ArD").
C18_TeatDecode == DecodesWith(CodeNames)

\* a record with bitfield 9 for incomplete teats (and 6 for kick-offs) was
\* applied: the set holds the series of both labels
C18_Witness ==
  /\ pc = "running"
  /\ \E r \in db :
       /\ r.OID \in DOMAIN applied
       /\ r.Incomplete = Some(9)
       /\ TeatsMetricName(r, MetricIncompleteTeats, "AvG,ArD") \in DOMAIN registry
       /\ TeatsMetricName(r, MetricKickoffTeats, "AvD,ArG") \in DOMAIN registry
       /\ TeatMetricName(r, MetricIncomplete, "ArD") \in DOMAIN registry

\* -------------------------------------------------- properties: the engine
RECURSIVE SumSCC(_)
SumSCC(rows) ==
  IF rows = {} THEN 0
  ELSE LET r == CHOOSE x \in rows : TRUE
       IN (IF r.SomaticCellCount # Nil THEN Deref(r.SomaticCellCount) ELSE 0)
          + SumSCC(rows \ {r})

\* how many times the records were applied, when each was applied as often
Times == IF DOMAIN applied = {} THEN 0 ELSE applied[CHOOSE o \in DOMAIN applied : TRUE]

AppliedEvenly ==
  /\ pc = "running"
  /\ DOMAIN applied \in {{}, {r.OID : r \in db}}
  /\ \A o \in DOMAIN applied : applied[o] = Times

\* the rows of a key that flag a teat in a bitfield column
Flagging(key, teat, incomplete) ==
  {r \in KeyRows(key) :
     /\ (IF incomplete THEN r.Incomplete ELSE r.Kickoff) # Nil
     /\ BitSet(Deref(IF incomplete THEN r.Incomplete ELSE r.Kickoff), teat)}

\* C19: the engine is not idempotent. When the same records were applied to
\* one metric set m times with the cursor left where it was, every accumulated
\* series holds m times their contribution: the session counter m per record,
\* the yield-total m times the yield, the somatic-cell total m times the
\* count, each flagged teat gauge m per flagging record; applied twice, a
\* record counts double.
C19_ApplyingTwiceDoubles ==
  AppliedEvenly =>
    \A r \in db :
      /\ Value(registry, Series(MetricMilkSessions, KeyOf(r)))
           = Times * Cardinality(KeyRows(KeyOf(r)))
      /\ Value(registry, Series(MetricMilkYieldTotal, KeyOf(r)))
           = Times * SumYield(KeyRows(KeyOf(r)))
      /\ Value(registry, Series(MetricSomaticCellTotal, KeyOf(r)))
           = Times * SumSCC(KeyRows(KeyOf(r)))
      /\ \A i \in 1..Len(AllTeats) :
           /\ Value(registry, TeatMetricName(r, MetricIncomplete, TeatString(AllTeats[i])))
                = Times * Cardinality(Flagging(KeyOf(r), AllTeats[i], TRUE))
           /\ Value(registry, TeatMetricName(r, MetricKickoff, TeatString(AllTeats[i])))
                = Times * Cardinality(Flagging(KeyOf(r), AllTeats[i], FALSE))

\* one record with a somatic cell count and flagged teats was applied twice
\* to the same set, the cursor still at 0
C19_Witness ==
  /\ pc = "running"
  /\ lastOID = 0
  /\ \E r \in db :
       /\ KeyRows(KeyOf(r)) = {r}
       /\ r.OID \in DOMAIN applied
       /\ applied[r.OID] = 2
       /\ r.Incomplete = Some(5)
       /\ Value(registry, Series(MetricMilkSessions, KeyOf(r))) = 2
       /\ Value(registry, Series(MetricMilkYieldTotal, KeyOf(r))) = 2 * r.Yield
       /\ Value(registry, Series(MetricSomaticCellTotal, KeyOf(r))) = 200
       /\ Value(registry, TeatMetricName(r, MetricIncomplete, "AvG")) = 2
       /\ Value(registry, TeatsMetricName(r, MetricIncompleteTeats, "AvG,ArG")) = 2

\* the positions of the records of a key in the slice passed to the engine
PositionsOf(input, key) == {i \in 1..Len(input) : KeyOf(input[i]) = key}

\* the last record of a key in input order
LastOfKey(input, key) ==
  input[CHOOSE i \in PositionsOf(input, key) : \A j \in PositionsOf(input, key) : j <= i]

\* the positions of the records of a key that carry days-in-lactation
WithDays(input, key) == {i \in PositionsOf(input, key) : input[i].DaysInLactation # Nil}

\* what the claim states about the series of one key after the slice input
\* was applied to a fresh set
TotalsOfKey(input, key) ==
  /\ Value(registry, Series(MetricMilkSessions, key)) = Cardinality(KeyRows(key))
  /\ Value(registry, Series(MetricMilkYieldTotal, key)) = SumYield(KeyRows(key))
  /\ Value(registry, Series(MetricSomaticCellTotal, key)) = SumSCC(KeyRows(key))
  /\ Series(MetricLastMilkYield, key) \in DOMAIN registry
  /\ registry[Series(MetricLastMilkYield, key)] = LastOfKey(input, key).Yield
  /\ Series(MetricLastYieldTimestamp, key) \in DOMAIN registry
  /\ registry[Series(MetricLastYieldTimestamp, key)] = Unix(LastOfKey(input, key).EndTime)
  /\ (WithDays(input, key) = {}) = (Series(MetricDaysInLactation, key) \notin DOMAIN registry)
  /\ WithDays(input, key) # {} =>
       registry[Series(MetricDaysInLactation, key)] =
         Deref(input[CHOOSE i \in WithDays(input, key) :
                       \A j \in WithDays(input, key) : j <= i].DaysInLactation)

\* the step just taken applied a slice to the fresh set
FirstApplication ==
  /\ lastCycle.outcome \in {"done", "panic"}
  /\ \A o \in DOMAIN applied : applied[o] = 1

\* C20: after a sequence of records was applied to a fresh metric set, for
\* each label key the session counter is the number of the key's records, the
\* yield-total the sum of their yields, the somatic-cell total the sum over
\* the records that carry a count, last-yield and its timestamp the yield and
\* EndTime (epoch seconds) of the key's last record in input order, and the
\* days-in-lactation gauge exists only if a record carries it and then holds
\* the last such value.
C20_TotalsAfterSequence ==
  FirstApplication => \A r \in db : TotalsOfKey(lastCycle.input, KeyOf(r))

\* the same for the sequences that the engine applies to their end
TotalsAfterCompleteSequence ==
  (FirstApplication /\ pc = "running") =>
    \A r \in db : TotalsOfKey(lastCycle.input, KeyOf(r))

\* two records of one key were applied to their end, the later in input order
\* with the earlier EndTime and without days-in-lactation or cell count
TotalsAfterCompleteSequenceSeen ==
  /\ FirstApplication
  /\ pc = "running"
  /\ Len(lastCycle.input) = 2
  /\ KeyOf(lastCycle.input[1]) = KeyOf(lastCycle.input[2])
  /\ lastCycle.input[2].EndTime < lastCycle.input[1].EndTime
  /\ lastCycle.input[2].DaysInLactation = Nil
  /\ lastCycle.input[1].DaysInLactation # Nil
  /\ lastCycle.input[2].SomaticCellCount = Nil

\* ------------------------------------------- properties: the written stream
\* positions of the response body written in the step of the record oid
StepLines(oid) == {i \in DOMAIN resp.body : resp.body[i].oid = oid}

\* the rows of r's key applied up to and including r
KeyRowsUpTo(r) == {x \in KeyRows(KeyOf(r)) : x.OID <= r.OID}

\* C21: with a destination writer, the set is serialized right after each
\* record's updates and before the next record is applied: the lines of one
\* record's step are consecutive, they show the counters as they are after
\* that record and before the next, and each carries that record's EndTime in
\* milliseconds, not the wall clock and not another record's EndTime.
C21_StepStampedWithEndTime ==
  resp.status = 200 =>
    \A r \in db :
      /\ \A i \in StepLines(r.OID) :
           /\ resp.body[i].ts = UnixMilli(r.EndTime)
           /\ resp.body[i].ts # UnixMilli(now)
           /\ resp.body[i].id.key[1] = r.AnimalRegNo
      /\ \A i \in StepLines(r.OID) :
           i + 1 \in StepLines(r.OID) \/ \A k \in StepLines(r.OID) : k <= i
      /\ StepLines(r.OID) # {} =>
           \E i \in StepLines(r.OID) :
             /\ resp.body[i].id = Series(MetricMilkSessions, KeyOf(r))
             /\ resp.body[i].value = Cardinality(KeyRowsUpTo(r))
      /\ \A i \in StepLines(r.OID) :
           resp.body[i].id = Series(MetricMilkYieldTotal, KeyOf(r)) =>
             resp.body[i].value = SumYield(KeyRowsUpTo(r))

\* two records of one key with different EndTimes were replayed to the end:
\* the first step shows one session at the first EndTime, the second two
\* sessions at the second EndTime
C21_Witness ==
  /\ resp.status = 200
  /\ ~resp.panic
  /\ \E r1, r2 \in db :
       /\ KeyOf(r1) = KeyOf(r2)
       /\ r1.OID < r2.OID
       /\ r1.EndTime # r2.EndTime
       /\ \E i \in StepLines(r1.OID), j \in StepLines(r2.OID) :
            /\ i < j
            /\ resp.body[i].id = Series(MetricMilkSessions, KeyOf(r1))
            /\ resp.body[j].id = resp.body[i].id
            /\ resp.body[i].value = 1 /\ resp.body[i].ts = UnixMilli(r1.EndTime)
            /\ resp.body[j].value = 2 /\ resp.body[j].ts = UnixMilli(r2.EndTime)

\* positions of the response body written in the steps of one animal's records
AnimalLines(regNo) ==
  {i \in DOMAIN resp.body : resp.body[i].oid # 0 /\ resp.body[i].id.key[1] = regNo}

\* the lines of every partition are in ascending OID order, each record's
\* step after the steps of the partition's records with a lower OID
AscendingByOID ==
    \A r \in db :
      /\ \A i, j \in AnimalLines(r.AnimalRegNo) :
           i < j => resp.body[i].oid <= resp.body[j].oid
      /\ \A x \in db :
           (x.AnimalRegNo = r.AnimalRegNo /\ x.OID < r.OID /\ StepLines(r.OID) # {}) =>
             /\ StepLines(x.OID) # {}
             /\ \A i \in StepLines(x.OID), j \in StepLines(r.OID) : i < j

\* C22 as stated: within one historical request the records of a partition
\* are processed, and their lines written, in ascending OID and time order.
C22_AscendingOIDAndTime ==
  resp.status = 200 =>
    /\ AscendingByOID
    /\ \A r \in db : \A i, j \in AnimalLines(r.AnimalRegNo) :
         i < j => resp.body[i].ts <= resp.body[j].ts

\* C22 amended: within one historical request the records of a partition are
\* processed, and their lines written, in ascending OID order, the order in
\* which the record source returned them (ORDER BY OID): the engine does not
\* sort, by OID or by time.  Nothing orders the partitions among themselves.
C22_AscendingWithinPartition == resp.status = 200 => AscendingByOID

\* the partition of the animal with OIDs 1 and 3 was written in that order,
\* after the partition of the animal with OID 2
C22_Witness ==
  /\ resp.status = 200
  /\ ~resp.panic
  /\ \E r1, r2, r3 \in db :
       /\ r1.OID = 1 /\ r2.OID = 2 /\ r3.OID = 3
       /\ r1.AnimalRegNo = r3.AnimalRegNo
       /\ r1.AnimalRegNo # r2.AnimalRegNo
       /\ \E i \in StepLines(1), j \in StepLines(2), k \in StepLines(3) : j < i /\ i < k

\* the lines of a partition can go back in time: OIDs 1 and 2 of one animal
\* were written in that order, the second with the earlier EndTime
TimestampsFollowOIDOrder ==
  /\ resp.status = 200
  /\ \E r1, r2 \in db :
       /\ r1.AnimalRegNo = r2.AnimalRegNo
       /\ r1.OID < r2.OID
       /\ r2.EndTime < r1.EndTime
       /\ \E i \in StepLines(r1.OID), j \in StepLines(r2.OID) :
            i < j /\ resp.body[j].ts < resp.body[i].ts

\* ----------------------------------------------- properties: teat gauges
TeatMetrics == {MetricIncomplete, MetricKickoff, MetricIncompleteTeats, MetricKickoffTeats}

\* the per-teat and concatenated-teats series of a metric set
TeatSeries(s) == {id \in DOMAIN s : id.name \in TeatMetrics}

\* the bitfield of a record that a teat metric reads
BitfieldOf(rec, metric) ==
  IF metric \in {MetricIncomplete, MetricIncompleteTeats}
  THEN Deref(rec.Incomplete) ELSE Deref(rec.Kickoff)

\* the teat series one record increments: one per flagged teat, and the one
\* labelled with the joined names when a teat is flagged
IncrementedBy(rec) ==
  UNION {{[name |-> m, key |-> KeyOf(rec), teat |-> t] :
            t \in SeqRange(NamesOf(BitfieldOf(rec, m), CodeNames))} :
           m \in {MetricIncomplete, MetricKickoff}}
  \cup {[name |-> m, key |-> KeyOf(rec), teat |-> LabelOf(BitfieldOf(rec, m), CodeNames)] :
          m \in {x \in {MetricIncompleteTeats, MetricKickoffTeats} : BitfieldOf(rec, x) # 0}}

\* how many records of the slice increment the series id
TeatDelta(input, id) ==
  Cardinality({i \in 1..Len(input) : id \in IncrementedBy(input[i])})

\* C23: for each record and each of its two bitfields, the gauge of every
\* flagged teat goes up by exactly 1 and no other per-teat gauge changes; the
\* gauge labelled with the comma-joined names goes up by 1 if and only if a
\* teat is flagged, so bitfield 0 touches no teat gauge.  Over a slice, every
\* teat series changes by the number of records that flag it.
C23_TeatGaugesPerRecord ==
  [][ lastCycle'.outcome = "done" =>
        /\ TeatSeries(registry') =
             TeatSeries(registry) \cup UNION {IncrementedBy(lastCycle'.input[i]) :
                                                i \in 1..Len(lastCycle'.input)}
        /\ \A id \in TeatSeries(registry') :
             registry'[id] - Value(registry, id) = TeatDelta(lastCycle'.input, id)
        /\ \A id \in TeatSeries(registry') : id.teat # "none" ]_vars

\* one record with incomplete teats 5 and kick-off teat 8 was applied alone
\* to a fresh set: the gauges AvG, ArG and "AvG,ArG" of the incomplete teats
\* and ArD and "ArD" of the kick-offs are at 1, and the set holds no other
\* teat series
C23_Witness ==
  /\ lastCycle.outcome = "done"
  /\ \E r \in db :
       /\ db = {r}
       /\ applied = (r.OID :> 1)
       /\ r.Incomplete = Some(5) /\ r.Kickoff = Some(8)
       /\ TeatSeries(registry) =
            { TeatMetricName(r, MetricIncomplete, "AvG"),
              TeatMetricName(r, MetricIncomplete, "ArG"),
              TeatsMetricName(r, MetricIncompleteTeats, "AvG,ArG"),
              TeatMetricName(r, MetricKickoff, "ArD"),
              TeatsMetricName(r, MetricKickoffTeats, "ArD") }
       /\ \A id \in TeatSeries(registry) : registry[id] = 1

\* ------------------------------------------------ properties: row scanning
\* the rows of the table that scan, and those that do not
GoodRows == {r \in db : r.BeginTime # Nil}

BadRows == db \ GoodRows

\* C24: a row that fails to scan is skipped and the batch continues: every
\* other row of the query is returned, in order, and processed, and the query
\* reports no error because of the bad row.  A historical request answers 200
\* with the steps of all the rows that scan, in OID order, and none for the
\* bad row; a live cycle applies all the rows that scan and runs to its end.
C24_BadRowSkipped ==
  /\ (resp.queried /\ ~resp.queryFailed) =>
       /\ resp.status = 200
       /\ ~resp.panic
       /\ resp.returned = {r.OID : r \in GoodRows}
       /\ \A r \in GoodRows : StepLines(r.OID) # {}
       /\ \A r \in BadRows : StepLines(r.OID) = {}
       /\ \A x, r \in GoodRows :
            (x.AnimalRegNo = r.AnimalRegNo /\ x.OID < r.OID) =>
              \A i \in StepLines(x.OID), j \in StepLines(r.OID) : i < j
       /\ resp.highestOID = HighestOID(SetToSeq(GoodRows))
  /\ (lastCycle.outcome # "none" /\ ~lastCycle.queryFailed) =>
       /\ lastCycle.outcome = "done"
       /\ DOMAIN applied = {r.OID : r \in GoodRows}
       /\ \A r \in GoodRows : applied[r.OID] = 1
       /\ lastOID = HighestOID(SetToSeq(GoodRows))

\* a request over three rows of which the second does not scan returned the
\* first and the third
C24_Witness ==
  /\ resp.status = 200
  /\ {r.OID : r \in BadRows} = {2}
  /\ resp.returned = {1, 3}
  /\ StepLines(1) # {} /\ StepLines(3) # {}

\* a cycle over three rows of which the second does not scan applied the
\* first and the third and moved the cursor to 3
BadRowSkippedByCycle ==
  /\ lastCycle.outcome = "done"
  /\ {r.OID : r \in BadRows} = {2}
  /\ DOMAIN applied = {1, 3}
  /\ lastOID = 3

\* ------------------------------------------------ properties: the cursor
\* C25: the cursor is written only by the startup path, the load in the
\* constructor and the override in main, both before the update loop starts,
\* and by the cycles of the one update loop; a historical request writes
\* neither the cursor nor the checkpoint file, so no two writers of the cursor
\* run at the same time.
C25_CursorWriters ==
  [][ /\ (lastOID' # lastOID \/ oidFile' # oidFile) =>
           \/ pc \in {"down", "panicked"} /\ pc' = "constructed" /\ oidFile' = oidFile
           \/ pc = "constructed" /\ pc' = "running" /\ override' > lastOID
           \/ pc = "running" /\ lastCycle'.outcome = "done" /\ lastCycle'.advanced
      /\ resp'.status # 0 => (lastOID' = lastOID /\ oidFile' = oidFile) ]_vars

\* a historical request served records above the cursor while the update loop
\* was running, and the cursor is still below them
C25_Witness ==
  /\ pc = "running"
  /\ resp.status = 200
  /\ resp.highestOID > lastOID
  /\ resp.returned # {}

\* the cursor covers every record applied in this lifetime, and what the
\* cycle just run fetched it applied whole, leaving the cursor at or above
\* the highest OID fetched, unless its query failed and it applied nothing
CursorCoversApplied ==
  /\ lastCycle'.queryFailed => (applied' = applied /\ registry' = registry)
  /\ ~lastCycle'.queryFailed =>
       /\ \A o \in lastCycle'.fetched :
            o \in DOMAIN applied' /\ applied'[o] = Value(applied, o) + 1 /\ o <= lastOID'
       /\ \A o \in DOMAIN applied' \ lastCycle'.fetched : applied'[o] = Value(applied, o)
       /\ \A o \in DOMAIN applied' : o <= lastOID'

\* C27: at the end of every live-update cycle the cursor is at or above the
\* OID of every record applied to the registry in this process lifetime; a
\* cycle that fetched a batch either applies all of it and leaves the cursor
\* at or above the batch's highest OID, or, its query having failed, applies
\* nothing.
C27_CursorCoversApplied ==
  [][ lastCycle'.outcome # "none" => CursorCoversApplied ]_vars

\* the same for the cycles that run to their end
CursorCoversAppliedByCompleteCycles ==
  [][ lastCycle'.outcome \in {"done", "error"} => CursorCoversApplied ]_vars

\* a cycle ran to its end over a batch of two records and left the cursor at
\* the higher OID
CursorCoversAppliedSeen ==
  /\ lastCycle.outcome = "done"
  /\ lastCycle.fetched = {1, 2}
  /\ DOMAIN applied = {1, 2}
  /\ lastOID = 2

\* ---------------------------------------- properties: counter initialization
\* the three series the constructor zeroes for a key
InitializedSeries(key) ==
  { Series(MetricMilkSessions, key), Series(MetricMilkYieldTotal, key),
    Series(MetricSomaticCellTotal, key) }

\* the rows of a key among the records with the given OIDs
FetchedOfKey(key, oids) == {r \in KeyRows(key) : r.OID \in oids}

\* C30: the counters are zeroed only in the constructor, with the cursor
\* loaded from the checkpoint file and before the first cycle: the step
\* leaves the file alone, the cursor is the one loaded, every series of the
\* new registry is 0 and no record has been applied.  Afterwards no step
\* resets a counter: a cycle adds its records to the counters as they are,
\* and any other step leaves them as they are.
C30_InitializationOnlyAtConstruction ==
  [][ /\ (pc' = "constructed" /\ pc # "constructed") =>
           /\ lastOID' = FileValue(oidFile)
           /\ oidFile' = oidFile
           /\ applied' = EmptyBag
           /\ \A id \in DOMAIN registry' :
                registry'[id] = 0 /\ \E r \in db : id \in InitializedSeries(KeyOf(r))
      /\ (pc \in {"constructed", "running"} /\ pc' \in {"constructed", "running"}) =>
           \A r \in db :
             /\ Value(registry', Series(MetricMilkSessions, KeyOf(r)))
                  = Value(registry, Series(MetricMilkSessions, KeyOf(r)))
                    + Cardinality(FetchedOfKey(KeyOf(r), lastCycle'.fetched))
             /\ Value(registry', Series(MetricMilkYieldTotal, KeyOf(r)))
                  = Value(registry, Series(MetricMilkYieldTotal, KeyOf(r)))
                    + SumYield(FetchedOfKey(KeyOf(r), lastCycle'.fetched))
             /\ Value(registry', Series(MetricSomaticCellTotal, KeyOf(r)))
                  = Value(registry, Series(MetricSomaticCellTotal, KeyOf(r)))
                    + SumSCC(FetchedOfKey(KeyOf(r), lastCycle'.fetched)) ]_vars

\* a process constructed with the cursor at 1 zeroed the counters of a key
\* that has two records, and a later cycle applied the second of them and a
\* cycle after that found nothing new: the session counter is still 1
C30_Witness ==
  /\ pc = "running"
  /\ lastCycle.outcome = "done"
  /\ lastCycle.fetched = {}
  /\ lastOID = 2
  /\ DOMAIN applied = {2}
  /\ \E r \in db :
       /\ Cardinality(KeyRows(KeyOf(r))) = 2
       /\ Series(MetricMilkSessions, KeyOf(r)) \in DOMAIN registry
       /\ registry[Series(MetricMilkSessions, KeyOf(r))] = 1

\* ------------------------------------------------- properties: liveness
\* the record with this OID is applied, once, to the registry of a process
\* that is still up
AppliedOnce(oid) == pc # "panicked" /\ oid \in DOMAIN applied /\ applied[oid] = 1

\* C28: a record above the cursor that a successful poll finds inside the
\* live window is eventually applied to the live registry exactly once; the
\* cursor does not advance past it leaving it unapplied.  (In the model OIDs
\* are given in the order of the EndTimes and every row scans.)
C28_EventuallyAppliedOnce ==
  \A oid \in 1..MaxRows : (oid \in lastCycle.fetched) ~> AppliedOnce(oid)

\* the same for the polls whose cycle runs to its end
AppliedOnceByCompleteCycles ==
  \A oid \in 1..MaxRows :
    (oid \in lastCycle.fetched /\ lastCycle.outcome = "done") ~> AppliedOnce(oid)

\* the cursor of a running process passes a record of the live window only by
\* applying it
NotSkippedInsideWindow ==
  [][ \A r \in db :
        ( /\ pc = "running" /\ pc' = "running"
          /\ lastOID < r.OID /\ r.OID <= lastOID'
          /\ now - LiveDelay - DefaultLookbackWindow <= r.EndTime
          /\ r.EndTime < now - LiveDelay ) => AppliedOnce(r.OID)' ]_vars

\* ------------------------------------------- properties: TimestampWriter
\* the positions of the newlines of a text
LineEnds(text) == {i \in 1..Len(text) : text[i] = "\n"}

\* the k-th newline-terminated line of a text, without its newline
InputLine(text, k) ==
  LET ends == LineEnds(text)
      e == CHOOSE i \in ends : Cardinality({j \in ends : j <= i}) = k
      b == IF k = 1 THEN 0 ELSE CHOOSE i \in ends : Cardinality({j \in ends : j <= i}) = k - 1
  IN SubSeq(text, b + 1, e - 1)

\* what follows the last newline of a text
Fragment(text) ==
  LET ends == LineEnds(text)
  IN IF ends = {} THEN text
     ELSE SubSeq(text, (CHOOSE i \in ends : \A j \in ends : j <= i) + 1, Len(text))

NonBlank(line) == \E i \in 1..Len(line) : line[i] \notin WhiteSpace

\* a line without its leading and trailing white space
Stripped(line) ==
  LET ink == {i \in 1..Len(line) : line[i] \notin WhiteSpace}
  IN IF ink = {} THEN <<>>
     ELSE SubSeq(line, CHOOSE i \in ink : \A j \in ink : i <= j,
                       CHOOSE i \in ink : \A j \in ink : j <= i)

\* the non-blank ones of the first k lines of a text, each followed by a
\* space, the timestamp in milliseconds and a newline
RECURSIVE Stamped(_, _, _)
Stamped(text, k, t) ==
  IF k = 0 THEN <<>>
  ELSE Stamped(text, k - 1, t) \o
       (IF NonBlank(InputLine(text, k))
        THEN InputLine(text, k) \o <<" ", ToString(t * 60000), "\n">>
        ELSE <<>>)

\* C29: however a text is cut into Write calls, the wrapped writer has received
\* exactly the non-blank newline-terminated lines written so far, once each and
\* in order, each followed by a space and the writer's timestamp in
\* milliseconds; what follows the last newline is held in the buffer until
\* Flush, which emits it if it is not blank; and Write returns the length of
\* the chunk.  (Stated for writers whose wrapped writer has not failed.)
C29_LinesStampedOnceInOrder ==
  ~tw.failed =>
    LET expected == Stamped(tw.text, Cardinality(LineEnds(tw.text)), tw.w.timestamp)
        fragment == Fragment(tw.text)
    IN /\ tw.n = tw.chunk
       /\ ~tw.flushed => tw.w.buffer = fragment /\ tw.w.out = expected
       /\ tw.flushed =>
            /\ tw.w.buffer = <<>>
            /\ tw.w.out = expected \o
                 (IF NonBlank(fragment)
                  THEN Stripped(fragment) \o <<" ", ToString(tw.w.timestamp * 60000), "\n">>
                  ELSE <<>>)

\* a line cut in two by the Write calls, a blank line, and a second line, all
\* newline-terminated and then flushed
C29_Witness ==
  /\ ~tw.failed /\ tw.flushed /\ tw.writes = 3 /\ tw.chunk = 3
  /\ tw.text = <<"a", "a", "\n", "\n", "a", "\n">>
  /\ tw.w.out = <<"a", "a", " ", "8400000", "\n", "a", " ", "8400000", "\n">>

\* a fragment held by Write and emitted by Flush
FragmentEmittedByFlush ==
  /\ ~tw.failed /\ tw.flushed
  /\ tw.text = <<"a", "\n", " ", "a">>
  /\ tw.w.out = <<"a", " ", "6000000", "\n", "a", " ", "6000000", "\n">>

\* a failed Fprintf makes Write return 0
WriteFailed == tw.err /\ ~tw.flushed /\ tw.n = 0 /\ tw.chunk > 0

\* ------------------------------------------------ properties: timeouts
\* an operation with a query in flight ends
OperationsTerminate == (call.op # "none") ~> (call.op = "none")

\* the step that ends an operation whose context is past its deadline reports
\* a failure: the cycle logs the error of one of its queries, the request
\* answers 500
TimeoutReported ==
  [][ (call.op # "none" /\ call.elapsed >= Deadline(call.op) /\ call'.op = "none") =>
        IF call.op = "cycle"
        THEN \/ lastCycle'.outcome = "error"
             \/ lastCycle'.outcome = "done" /\ ~lastCycle'.utilization
        ELSE resp'.status = 500 ]_vars

\* C26: a cycle or a request with a query in flight ends although the record
\* source stalls, 30 s after a cycle and 60 s after a request made its
\* context at the latest, and an operation ended by its timeout has failed and
\* says so: the cycle logs a query error, the request answers 500.
C26_TerminatesAndTimeoutReported == OperationsTerminate /\ TimeoutReported

\* no query is in flight after its deadline plus a step, and none is started
\* again by the operation that timed out
NoQueryPastDeadline == call.op # "none" => call.elapsed <= Deadline(call.op)

\* a timeout that strikes before QueryContext has returned is reported, and
\* nothing is applied and nothing returned
TimeoutBeforeRowsReported ==
  [][ (call.op # "none" /\ ~call.streaming /\ call.elapsed >= Deadline(call.op)
        /\ call'.op = "none") =>
        /\ registry' = registry /\ lastOID' = lastOID /\ applied' = applied
        /\ IF call.op = "cycle" THEN lastCycle'.outcome = "error"
           ELSE resp'.status = 500 /\ resp'.body = <<>> ]_vars

\* a request cut by its deadline in the scan loop answers 200 with fewer
\* records than the record source holds for it
TruncatedAnswer ==
  /\ resp.status = 200 /\ resp.returned = {1}
  /\ Cardinality({r \in db : r.BeginTime # Nil}) = 3
  /\ resp.req = Request(Absent, Absent, Absent, Absent)

====
